---- MODULE Spec2Model ----
(***************************************************************************)
(* A model of the selenium-pytest-framework: the retrying element actions, *)
(* the error disposition of the wrapper operations, the pytest fixtures    *)
(* and hooks of conftest.py, the report helper and the configuration       *)
(* singleton.  The wrapped WebDriver library and the test runner are the   *)
(* environment: every outcome they can produce is a nondeterministic      *)
(* choice.                                                                 *)
(***************************************************************************)
EXTENDS Integers, Sequences, FiniteSets, TLC

VARIABLES
    \* ---- core/element_actions.py and the wrapper operations ----
    op,             \* the operation being executed ("none" when idle)
    pc,             \* its position: idle, loop, sleep, js, returned, raised
    retry_count,    \* the retry_count argument
    attempt,        \* the loop variable of `for attempt in range(retry_count)`
    clear_first,    \* the clear_first argument of safe_send_keys
    events,         \* the library calls and sleeps made so far, in order
    result,         \* the value returned, or the exception raised
    chain,          \* the call chain from the operation down to the library
    exc,            \* the exception the library raised in a wrapper operation
    \* ---- tests/conftest.py: the test session ----
    run_pc,         \* idle, setup, report_setup, call, report_call,
                    \* teardown, report_teardown, done
    plan,           \* the collected tests: the driver fixture each one uses
    cur,            \* the index of the running test
    phase_outcome,  \* the outcome of the phase being reported
    fn_driver,      \* the driver the running test's driver fixture yielded
    cls_driver,     \* request.cls.driver of the running class (0: none)
    cls_state,      \* the class_driver fixture: none, active, failed
    drivers,        \* every driver created so far, by id
    reports,        \* the reports the runner has recorded
    screenshots,    \* the capture_screenshot calls made by the hook
    \* ---- utils/report_helper.py: the global report_helper ----
    test_results,   \* ReportHelper.test_results
    report_files,   \* the report files written, in order
    rh_op,          \* the last ReportHelper operation
    rh_ret,         \* what it returned
    \* ---- config/config.py and the session's command line ----
    cfg_pc,         \* config.config: unimported, imported, import_failed
    instance,       \* Config._instance (0: None)
    objects,        \* the Config objects created: each one's _config_data
    file,           \* environments.json on disk
    reads,          \* how many times environments.json was opened and read
    constructs,     \* how many times Config() was called
    environ,        \* os.environ: ENV, BROWSER, HEADLESS
    cfg_op,         \* the last Config operation
    cfg_arg,        \* its env argument
    cfg_exc,        \* the exception it raised ("None": none)
    cfg_ret,        \* the value it returned
    cli_pc,         \* the setup_environment fixture: pending, done, failed
    cli,            \* the --browser, --headless and --env it ran with
    \* ---- utils/screenshot.py: capture_screenshot ----
    shot_caller,    \* who called it last: none, hook, direct
    shot_name,      \* the name it was given
    shot_exc,       \* the exception it raised ("None": none)
    shot_ret,       \* the path it returned
    shot_files,     \* the files saved so far
    \* ---- pages/dashboard_page.py: get_cart_item_count ----
    badge_found,    \* what waiting for the cart badge did: found, or raised
    badge_text,     \* what reading its text did: the text, or raised
    badge_exc,      \* the exception get_cart_item_count raised ("None": none)
    badge_ret,      \* the count it returned (-1 before any call)
    badge_page,     \* the page object whose get_cart_item_count was called
    \* ---- pages/*.py driving the site under test in one browser ----
    site,           \* the browser: page, fields, error, session, cart, menu
    site_before,    \* the browser when the last page-object operation began
    site_op,        \* the last page-object operation
    site_arg,       \* its arguments
    site_exc,       \* the exception it raised ("None": none)
    site_ret,       \* the value it returned
    dom_log,        \* the element interactions it made, in order
    \* ---- core/base_page.py: the explicit waits ----
    wait_op,        \* the operation called ("none" before any)
    wait_timeout,   \* the timeout passed: <<>> for none, <<t>> for t seconds
    wait_config,    \* config.timeout at the call
    wait_appears,   \* when the element appears: <<>> for never, <<t>>
    wait_used,      \* the timeout WebDriverWait was given
    wait_exc,       \* the exception raised ("None": none)
    wait_ret,       \* the value returned
    \* ---- core/browser_factory.py: BrowserFactory.get_driver ----
    bf_call,        \* the last call: arguments and the configuration then
    bf_result,      \* what it did: exception, driver created and its mode
    \* ---- core/waits.py: a wait on a CustomWaitConditions predicate ----
    cw,             \* the wait: predicate, polls made, status, last evaluation
    cw_element,     \* the element the locator names, as the page has it now
    \* ---- utils/screenshot.py: capture_full_page_screenshot ----
    fp_window,      \* the size of the browser window
    fp_call,        \* the last call: size before, driver calls made, result
    \* ---- core/element_actions.py: checkbox_select / checkbox_deselect ----
    cb_selected,    \* whether the checkbox is selected
    cb_calls        \* the latest calls made with nothing else in between

eaVars == <<op, pc, retry_count, attempt, clear_first, events, result, chain, exc>>
runVars == <<run_pc, plan, cur, phase_outcome, fn_driver, cls_driver, cls_state,
             drivers, reports, screenshots>>
rhVars == <<test_results, report_files, rh_op, rh_ret>>
siteVars == <<site, site_before, site_op, site_arg, site_exc, site_ret, dom_log>>
waitVars == <<wait_op, wait_timeout, wait_config, wait_appears, wait_used,
              wait_exc, wait_ret>>
bfVars == <<bf_call, bf_result>>
cwVars == <<cw, cw_element>>
fpVars == <<fp_window, fp_call>>
cbVars == <<cb_selected, cb_calls>>
badgeVars == <<badge_found, badge_text, badge_exc, badge_ret, badge_page>>
shotVars == <<shot_caller, shot_name, shot_exc, shot_ret, shot_files>>
cfgVars == <<cfg_pc, instance, objects, file, reads, constructs, environ,
             cfg_op, cfg_arg, cfg_exc, cfg_ret, cli_pc, cli>>

(***************************************************************************)
(* Bounds.                                                                 *)
(***************************************************************************)
MaxRetry == 3
MaxCallDepth == 4

\* retry_count: int = 3
DefaultRetryCount == 3

(***************************************************************************)
(* The exceptions of the wrapped library (selenium.common.exceptions).     *)
(***************************************************************************)
LibExc == {"TimeoutException", "NoSuchElementException",
           "StaleElementReferenceException",
           "ElementClickInterceptedException",
           "ElementNotInteractableException", "WebDriverException"}

\* except (StaleElementReferenceException, ElementClickInterceptedException)
ClickRetryable_All == LibExc
ClickRetryable == {"StaleElementReferenceException",
                   "ElementClickInterceptedException"}

\* except (StaleElementReferenceException, ElementNotInteractableException)
SendKeysRetryable_All == LibExc
SendKeysRetryable == {"StaleElementReferenceException",
                      "ElementNotInteractableException"}

\* if attempt == retry_count - 1
IsLastAttempt_Always(a, rc) == TRUE
IsLastAttempt_Never(a, rc) == FALSE
IsLastAttempt(a, rc) == a = rc - 1

Ev(kind, out) == <<kind, out>>

\* An operation is named by its class and its method.
NoOp == <<"none", "none">>
Lib == <<"selenium", "library">>
EA(m) == <<"ElementActions", m>>
BP(m) == <<"BasePage", m>>
BF(m) == <<"BrowserFactory", m>>
LP(m) == <<"LoginPage", m>>
PP(m) == <<"ProductsPage", m>>
DP(m) == <<"DashboardPage", m>>

\* The number of events of one kind, and of one kind with one outcome.
RECURSIVE CountKind(_, _)
CountKind(es, kind) ==
    IF es = <<>> THEN 0
    ELSE (IF Head(es)[1] = kind THEN 1 ELSE 0) + CountKind(Tail(es), kind)

RECURSIVE CountEv(_, _, _)
CountEv(es, kind, out) ==
    IF es = <<>> THEN 0
    ELSE (IF Head(es) = Ev(kind, out) THEN 1 ELSE 0)
         + CountEv(Tail(es), kind, out)

(***************************************************************************)
(* ElementActions.safe_click                                               *)
(***************************************************************************)
Call_safe_click(rc) ==
    /\ pc = "idle"
    /\ op' = EA("safe_click")
    /\ retry_count' = rc
    /\ attempt' = 0
    /\ events' = <<>>
    /\ result' = "none"
    /\ pc' = "loop"
    /\ UNCHANGED <<clear_first, chain, exc>>
    /\ UNCHANGED <<runVars, rhVars, cfgVars, shotVars, badgeVars, siteVars,
                   waitVars, bfVars, cwVars, fpVars, cbVars>>

\* element.click() inside the try of one loop iteration
ClickAttempt(out) ==
    /\ pc = "loop"
    /\ op = EA("safe_click")
    /\ attempt < retry_count
    /\ events' = Append(events, Ev("click", out))
    /\ IF out = "ok"
       THEN /\ result' = "True"
            /\ pc' = "returned"
       ELSE IF out \in ClickRetryable
       THEN /\ result' = result
            /\ pc' = IF IsLastAttempt(attempt, retry_count) THEN "js" ELSE "sleep"
       ELSE /\ result' = out
            /\ pc' = "raised"
    /\ UNCHANGED <<op, retry_count, attempt, clear_first, chain, exc>>
    /\ UNCHANGED <<runVars, rhVars, cfgVars, shotVars, badgeVars, siteVars,
                   waitVars, bfVars, cwVars, fpVars, cbVars>>

\* self.driver.execute_script("arguments[0].click();", element)
JsClick(out) ==
    /\ pc = "js"
    /\ op = EA("safe_click")
    /\ events' = Append(events, Ev("js", out))
    /\ result' = IF out = "ok" THEN "True" ELSE "False"
    /\ pc' = "returned"
    /\ UNCHANGED <<op, retry_count, attempt, clear_first, chain, exc>>
    /\ UNCHANGED <<runVars, rhVars, cfgVars, shotVars, badgeVars, siteVars,
                   waitVars, bfVars, cwVars, fpVars, cbVars>>

(***************************************************************************)
(* ElementActions.safe_send_keys                                           *)
(***************************************************************************)
Call_safe_send_keys(rc, cf) ==
    /\ pc = "idle"
    /\ op' = EA("safe_send_keys")
    /\ retry_count' = rc
    /\ clear_first' = cf
    /\ attempt' = 0
    /\ events' = <<>>
    /\ result' = "none"
    /\ pc' = "loop"
    /\ UNCHANGED <<chain, exc>>
    /\ UNCHANGED <<runVars, rhVars, cfgVars, shotVars, badgeVars, siteVars,
                   waitVars, bfVars, cwVars, fpVars, cbVars>>

\* One loop iteration: element.clear() when clear_first, then
\* element.send_keys(text); `failAt` is the call that raised `out`.
SendKeysAttempt(failAt, out) ==
    /\ pc = "loop"
    /\ op = EA("safe_send_keys")
    /\ attempt < retry_count
    /\ failAt = "clear" => clear_first /\ out # "ok"
    /\ events' =
         IF failAt = "clear" THEN Append(events, Ev("clear", out))
         ELSE IF clear_first
              THEN events \o <<Ev("clear", "ok"), Ev("send_keys", out)>>
              ELSE Append(events, Ev("send_keys", out))
    /\ IF out = "ok"
       THEN /\ result' = "True"
            /\ pc' = "returned"
       ELSE IF out \in SendKeysRetryable
       THEN IF IsLastAttempt(attempt, retry_count)
            THEN /\ result' = "False"
                 /\ pc' = "returned"
            ELSE /\ result' = result
                 /\ pc' = "sleep"
       ELSE /\ result' = out
            /\ pc' = "raised"
    /\ UNCHANGED <<op, retry_count, attempt, clear_first, chain, exc>>
    /\ UNCHANGED <<runVars, rhVars, cfgVars, shotVars, badgeVars, siteVars,
                   waitVars, bfVars, cwVars, fpVars, cbVars>>

(***************************************************************************)
(* The wrapper operations: what each calls and which library exceptions    *)
(* its own except clause turns into a return value.                        *)
(***************************************************************************)
\* ElementActions: every method but safe_click and safe_send_keys is
\* `try: ... except Exception: log; return <fallback>`.
ElementActionsMethods ==
    {"select_dropdown_by_text", "select_dropdown_by_value",
     "select_dropdown_by_index", "get_dropdown_options",
     "get_selected_dropdown_option", "checkbox_select", "checkbox_deselect",
     "radio_button_select", "hover_and_click", "drag_and_drop_by_offset",
     "send_special_key", "clear_field_with_backspace",
     "scroll_element_into_center", "highlight_element",
     "is_element_clickable"}

ElementActionsCatches(m) == LibExc

ElementActionsFallback(m) ==
    IF m = "get_dropdown_options" THEN "[]"
    ELSE IF m = "get_selected_dropdown_option" THEN "''"
    ELSE IF m = "highlight_element" THEN "None"
    ELSE "False"

BasePageMethods ==
    {"navigate_to", "navigate_to_base_url", "get_current_url",
     "get_page_title", "refresh_page", "go_back", "go_forward",
     "find_element", "find_elements", "is_element_present",
     "is_element_visible", "click", "type_text", "get_text", "get_attribute",
     "clear_field", "hover_over_element", "double_click_element",
     "right_click_element", "drag_and_drop", "press_key",
     "wait_for_element_visible", "wait_for_element_invisible",
     "wait_for_text_in_element", "execute_script", "scroll_to_element",
     "scroll_to_bottom", "scroll_to_top", "click_with_js", "switch_to_frame",
     "switch_to_default_content", "switch_to_window", "get_window_handles",
     "accept_alert", "dismiss_alert", "get_alert_text"}

BasePageCalls(m) ==
    IF m \in {"type_text", "get_text", "get_attribute", "clear_field",
              "hover_over_element", "double_click_element",
              "right_click_element", "drag_and_drop", "press_key",
              "scroll_to_element", "click_with_js"}
    THEN {BP("find_element"), Lib}
    ELSE IF m = "navigate_to_base_url" THEN {BP("navigate_to")}
    ELSE {Lib}

\* find_element logs a TimeoutException and re-raises it; find_elements,
\* is_element_present and is_element_visible return [] / False / False.
BasePageCatches_FindElementToo(m) ==
    IF m \in {"find_element", "find_elements", "is_element_present",
              "is_element_visible"}
    THEN {"TimeoutException"} ELSE {}
BasePageCatches(m) ==
    IF m \in {"find_elements", "is_element_present", "is_element_visible"}
    THEN {"TimeoutException"} ELSE {}

BasePageFallback(m) == IF m = "find_elements" THEN "[]" ELSE "False"

BrowserFactoryMethods == {"get_driver", "quit_driver"}

\* quit_driver: try: driver.quit() except Exception: log
BrowserFactoryCatches_None(m) == {}
BrowserFactoryCatches(m) == IF m = "quit_driver" THEN LibExc ELSE {}

LoginPageMethods ==
    {"navigate", "is_displayed", "enter_username", "enter_password",
     "click_login_button", "login", "get_error_message", "is_error_displayed",
     "close_error_message", "get_available_usernames", "clear_username",
     "clear_password", "is_login_button_enabled"}

LoginPageCalls(m) ==
    CASE m = "navigate" -> {BP("navigate_to")}
      [] m \in {"is_displayed", "is_error_displayed"} ->
            {BP("is_element_visible")}
      [] m \in {"enter_username", "enter_password"} -> {BP("type_text")}
      [] m \in {"click_login_button", "close_error_message"} -> {BP("click")}
      [] m = "login" -> {LP("enter_username"), LP("enter_password"),
                         LP("click_login_button")}
      [] m \in {"get_error_message", "get_available_usernames"} ->
            {BP("get_text")}
      [] m \in {"clear_username", "clear_password"} -> {BP("clear_field")}
      [] m = "is_login_button_enabled" -> {BP("find_element"), Lib}

ProductsPageMethods ==
    {"is_displayed", "get_page_title", "get_product_count",
     "get_all_product_names", "get_all_product_prices",
     "add_product_to_cart_by_name", "remove_product_from_cart_by_name",
     "add_first_n_products_to_cart", "get_cart_item_count",
     "click_shopping_cart", "open_burger_menu", "logout", "sort_products",
     "is_product_in_cart"}

ProductsPageCalls(m) ==
    CASE m = "is_displayed" -> {BP("is_element_visible"), BP("get_text")}
      [] m = "get_page_title" -> {BP("get_text")}
      [] m = "get_product_count" -> {BP("find_elements")}
      [] m \in {"get_all_product_names", "get_all_product_prices",
                "add_first_n_products_to_cart"} -> {BP("find_elements"), Lib}
      [] m \in {"add_product_to_cart_by_name",
                "remove_product_from_cart_by_name", "click_shopping_cart",
                "open_burger_menu"} -> {BP("click")}
      [] m = "get_cart_item_count" ->
            {BP("is_element_present"), BP("get_text")}
      [] m = "logout" -> {PP("open_burger_menu"), BP("click")}
      [] m = "sort_products" -> {BP("find_element"), Lib}
      [] m = "is_product_in_cart" -> {BP("is_element_present")}

DashboardPageMethods ==
    {"is_displayed", "get_page_title", "get_welcome_message",
     "get_cart_item_count", "click_shopping_cart", "open_menu", "logout",
     "navigate_to_all_items", "navigate_to_about", "reset_app_state",
     "get_inventory_count", "is_footer_displayed", "get_footer_text",
     "is_social_links_present", "click_social_link", "verify_user_logged_in"}

DashboardPageCalls(m) ==
    CASE m \in {"is_displayed", "is_footer_displayed"} ->
            {BP("is_element_visible")}
      [] m \in {"get_page_title", "get_welcome_message", "get_footer_text"} ->
            {BP("get_text")}
      [] m = "get_cart_item_count" ->
            {BP("is_element_present"), BP("get_text")}
      [] m \in {"click_shopping_cart", "click_social_link"} -> {BP("click")}
      [] m = "open_menu" -> {BP("click"), BP("wait_for_element_visible")}
      [] m \in {"logout", "navigate_to_all_items", "navigate_to_about",
                "reset_app_state"} -> {DP("open_menu"), BP("click")}
      [] m = "get_inventory_count" -> {BP("find_elements")}
      [] m = "is_social_links_present" -> {BP("is_element_present")}
      [] m = "verify_user_logged_in" ->
            {BP("is_element_visible"), BP("get_current_url")}

\* DashboardPage.get_cart_item_count: try: ... except Exception: log; return 0
DashboardPageCatches_LibraryOnly(m) ==
    IF m = "get_cart_item_count" THEN LibExc ELSE {}
DashboardPageCatches(m) ==
    IF m = "get_cart_item_count" THEN LibExc \cup {"ValueError"} ELSE {}

WrapperOps ==
    {EA(m) : m \in ElementActionsMethods} \cup {BP(m) : m \in BasePageMethods}
    \cup {BF(m) : m \in BrowserFactoryMethods}
    \cup {LP(m) : m \in LoginPageMethods}
    \cup {PP(m) : m \in ProductsPageMethods}
    \cup {DP(m) : m \in DashboardPageMethods}

Calls(o) ==
    CASE o[1] = "BasePage" -> BasePageCalls(o[2])
      [] o[1] = "LoginPage" -> LoginPageCalls(o[2])
      [] o[1] = "ProductsPage" -> ProductsPageCalls(o[2])
      [] o[1] = "DashboardPage" -> DashboardPageCalls(o[2])
      [] OTHER -> {Lib}

Catches(o) ==
    CASE o[1] = "ElementActions" -> ElementActionsCatches(o[2])
      [] o[1] = "BasePage" -> BasePageCatches(o[2])
      [] o[1] = "BrowserFactory" -> BrowserFactoryCatches(o[2])
      [] o[1] = "DashboardPage" -> DashboardPageCatches(o[2])
      [] OTHER -> {}

Fallback(o) ==
    CASE o[1] = "ElementActions" -> ElementActionsFallback(o[2])
      [] o[1] = "BasePage" -> BasePageFallback(o[2])
      [] o[1] = "BrowserFactory" -> "None"
      [] o[1] = "DashboardPage" -> "0"
      [] OTHER -> "None"

\* The call chains from operation o down to a call of the library.
RECURSIVE Paths(_, _)
Paths(o, d) ==
    IF d = 0 THEN {}
    ELSE (IF Lib \in Calls(o) THEN {<<o>>} ELSE {})
         \cup UNION {{<<o>> \o p : p \in Paths(c, d - 1)} :
                       c \in Calls(o) \ {Lib}}

\* The innermost frame of chain c whose except clause catches e; 0 if none.
RECURSIVE HandledAt(_, _, _)
HandledAt(c, e, i) ==
    IF i = 0 THEN 0
    ELSE IF e \in Catches(c[i]) THEN i
    ELSE HandledAt(c, e, i - 1)

\* Operation top is called; the library raises e at the end of chain c.
\* The exception unwinds the chain until an except clause catches it.
Invoke(top, c, e) ==
    /\ pc = "idle"
    /\ c \in Paths(top, MaxCallDepth)
    /\ op' = top
    /\ chain' = c
    /\ exc' = e
    /\ LET h == HandledAt(c, e, Len(c))
       IN /\ pc' = IF h = 0 THEN "raised" ELSE "returned"
          /\ result' = IF h = 0 THEN e
                       ELSE IF h = 1 THEN Fallback(top) ELSE "value"
    /\ UNCHANGED <<retry_count, attempt, clear_first, events>>
    /\ UNCHANGED <<runVars, rhVars, cfgVars, shotVars, badgeVars, siteVars,
                   waitVars, bfVars, cwVars, fpVars, cbVars>>

(***************************************************************************)
(* Shared by both loops.                                                   *)
(***************************************************************************)
\* time.sleep(0.5), then the next iteration
Sleep ==
    /\ pc = "sleep"
    /\ events' = Append(events, Ev("sleep", "ok"))
    /\ attempt' = attempt + 1
    /\ pc' = "loop"
    /\ UNCHANGED <<op, retry_count, clear_first, result, chain, exc>>
    /\ UNCHANGED <<runVars, rhVars, cfgVars, shotVars, badgeVars, siteVars,
                   waitVars, bfVars, cwVars, fpVars, cbVars>>

\* range(retry_count) is exhausted: the `return False` after the loop
LoopExit ==
    /\ pc = "loop"
    /\ op \in {EA("safe_click"), EA("safe_send_keys")}
    /\ attempt >= retry_count
    /\ result' = "False"
    /\ pc' = "returned"
    /\ UNCHANGED <<op, retry_count, attempt, clear_first, events, chain, exc>>
    /\ UNCHANGED <<runVars, rhVars, cfgVars, shotVars, badgeVars, siteVars,
                   waitVars, bfVars, cwVars, fpVars, cbVars>>

\* The caller has the result (or the exception); the next call may start.
Finish ==
    /\ pc \in {"returned", "raised"}
    /\ pc' = "idle"
    /\ op' = NoOp
    /\ retry_count' = 0
    /\ attempt' = 0
    /\ clear_first' = TRUE
    /\ events' = <<>>
    /\ result' = "none"
    /\ chain' = <<>>
    /\ exc' = "none"
    /\ UNCHANGED <<runVars, rhVars, cfgVars, shotVars, badgeVars, siteVars,
                   waitVars, bfVars, cwVars, fpVars, cbVars>>

InitEA ==
    /\ op = NoOp
    /\ pc = "idle"
    /\ retry_count = 0
    /\ attempt = 0
    /\ clear_first = TRUE
    /\ events = <<>>
    /\ result = "none"
    /\ chain = <<>>
    /\ exc = "none"

(***************************************************************************)
(* tests/conftest.py: the driver fixtures and the makereport hook, run by  *)
(* the test runner one test after the other: setup, call, teardown, each   *)
(* phase followed by its report.                                           *)
(***************************************************************************)
MaxTests == 2

\* The driver fixture a test uses: the function-scoped driver, the
\* logged_in_driver of test_products.py (built on driver), the class-scoped
\* class_driver, or none.
Kinds == {"driver", "logged_in_driver", "class_driver", "none"}

\* BrowserFactory.get_driver, for the fixture of test `owner`: webdriver.X()
\* raises ("start_failed", as does the ValueError of an unsupported browser),
\* or it returns and maximize_window / implicitly_wait raises
\* ("init_failed": the browser exists, get_driver raises), or all is "ok".
GetDriverOutcomes == {"ok", "start_failed", "init_failed"}
GetDriver(ds, owner, scope, out) ==
    IF out = "start_failed" THEN ds
    ELSE Append(ds, [owner |-> owner, scope |-> scope,
                     returned |-> out = "ok", quit_driver_calls |-> 0,
                     quit_calls |-> 0, live |-> TRUE])

\* BrowserFactory.quit_driver(driver): `if driver:` then driver.quit() in a
\* try whose except logs; 0 stands for a falsy driver, and `out` is what
\* driver.quit() does: "ok", or the exception it raises (the browser may
\* live on).
QuitDriver(ds, d, out) ==
    IF d = 0 THEN ds
    ELSE [ds EXCEPT ![d].quit_driver_calls = @ + 1,
                    ![d].quit_calls = @ + 1,
                    ![d].live = IF out = "ok" THEN FALSE ELSE @]

\* Whether quit_driver(driver) raises: only what its except clause does not
\* catch leaves it.
QuitOutcomes == {"ok", "WebDriverException"}
QuitDriverRaised(d, out) ==
    d # 0 /\ out # "ok" /\ out \notin BrowserFactoryCatches("quit_driver")

\* pytest_runtest_makereport: `if report.when == "call":` ... `if
\* report.failed and driver_fixture:`
ShouldCapture_AnyPhase(when, outcome, driver_fixture) ==
    outcome = "failed" /\ driver_fixture # 0
ShouldCapture(when, outcome, driver_fixture) ==
    when = "call" /\ outcome = "failed" /\ driver_fixture # 0

\* The driver the hook finds: item.funcargs['driver'], else
\* item.instance.driver, else None.
DriverFixture_FirstCreated == IF drivers # <<>> THEN 1 ELSE 0

DriverFixture ==
    IF plan[cur] \in {"driver", "logged_in_driver"} /\ fn_driver # 0
    THEN fn_driver
    ELSE IF plan[cur] = "class_driver" THEN cls_driver
    ELSE 0

SessionStart(p) ==
    /\ run_pc = "idle"
    /\ plan' = p
    /\ cur' = 1
    /\ run_pc' = "setup"
    /\ UNCHANGED <<phase_outcome, fn_driver, cls_driver, cls_state, drivers,
                   reports, screenshots>>
    /\ UNCHANGED <<eaVars, rhVars, cfgVars, shotVars, badgeVars, siteVars,
                   waitVars, bfVars, cwVars, fpVars, cbVars>>

\* A test skipped by its marker: no fixture is set up.
Setup_skipped ==
    /\ run_pc = "setup"
    /\ phase_outcome' = "skipped"
    /\ run_pc' = "report_setup"
    /\ UNCHANGED <<plan, cur, fn_driver, cls_driver, cls_state, drivers,
                   reports, screenshots>>
    /\ UNCHANGED <<eaVars, rhVars, cfgVars, shotVars, badgeVars, siteVars,
                   waitVars, bfVars, cwVars, fpVars, cbVars>>

Setup_none ==
    /\ run_pc = "setup"
    /\ plan[cur] = "none"
    /\ phase_outcome' = "passed"
    /\ run_pc' = "report_setup"
    /\ UNCHANGED <<plan, cur, fn_driver, cls_driver, cls_state, drivers,
                   reports, screenshots>>
    /\ UNCHANGED <<eaVars, rhVars, cfgVars, shotVars, badgeVars, siteVars,
                   waitVars, bfVars, cwVars, fpVars, cbVars>>

\* The driver fixture up to its yield; logged_in_driver then navigates and
\* logs in, which may raise (`login` is "ok" or "raised").
Setup_driver(out, login) ==
    /\ run_pc = "setup"
    /\ plan[cur] \in {"driver", "logged_in_driver"}
    /\ login = "raised" => plan[cur] = "logged_in_driver" /\ out = "ok"
    /\ drivers' = GetDriver(drivers, cur, "function", out)
    /\ fn_driver' = IF out = "ok" THEN Len(drivers') ELSE 0
    /\ phase_outcome' = IF out = "ok" /\ login = "ok" THEN "passed" ELSE "failed"
    /\ run_pc' = "report_setup"
    /\ UNCHANGED <<plan, cur, cls_driver, cls_state, reports, screenshots>>
    /\ UNCHANGED <<eaVars, rhVars, cfgVars, shotVars, badgeVars, siteVars,
                   waitVars, bfVars, cwVars, fpVars, cbVars>>

\* The class_driver fixture up to its yield: run for the first test of the
\* class; later tests of the class get its cached value or exception.
Setup_class_driver(out) ==
    /\ run_pc = "setup"
    /\ plan[cur] = "class_driver"
    /\ IF cls_state = "none"
       THEN /\ drivers' = GetDriver(drivers, cur, "class", out)
            /\ cls_driver' = IF out = "ok" THEN Len(drivers') ELSE 0
            /\ cls_state' = IF out = "ok" THEN "active" ELSE "failed"
       ELSE /\ out = "ok"
            /\ UNCHANGED <<drivers, cls_driver, cls_state>>
    /\ phase_outcome' = IF cls_state' = "active" THEN "passed" ELSE "failed"
    /\ run_pc' = "report_setup"
    /\ UNCHANGED <<plan, cur, fn_driver, reports, screenshots>>
    /\ UNCHANGED <<eaVars, rhVars, cfgVars, shotVars, badgeVars, siteVars,
                   waitVars, bfVars, cwVars, fpVars, cbVars>>

\* The test function.
Call(outcome) ==
    /\ run_pc = "call"
    /\ phase_outcome' = outcome
    /\ run_pc' = "report_call"
    /\ UNCHANGED <<plan, cur, fn_driver, cls_driver, cls_state, drivers,
                   reports, screenshots>>
    /\ UNCHANGED <<eaVars, rhVars, cfgVars, shotVars, badgeVars, siteVars,
                   waitVars, bfVars, cwVars, fpVars, cbVars>>

\* The fixture finalizers: the driver fixture after its yield, and the
\* class_driver fixture after its yield when the next test is not of the
\* class.
Teardown(quit_out) ==
    /\ run_pc = "teardown"
    /\ LET lastOfClass ==
              /\ plan[cur] = "class_driver"
              /\ cls_state # "none"
              /\ (cur = Len(plan) \/ plan[cur + 1] # "class_driver")
           afterFn == QuitDriver(drivers, fn_driver, quit_out)
       IN /\ drivers' = IF lastOfClass THEN QuitDriver(afterFn, cls_driver, quit_out)
                        ELSE afterFn
          /\ cls_driver' = IF lastOfClass THEN 0 ELSE cls_driver
          /\ cls_state' = IF lastOfClass THEN "none" ELSE cls_state
          /\ phase_outcome' =
                IF \/ QuitDriverRaised(fn_driver, quit_out)
                   \/ lastOfClass /\ QuitDriverRaised(cls_driver, quit_out)
                THEN "failed" ELSE "passed"
    /\ fn_driver' = 0
    /\ run_pc' = "report_teardown"
    /\ UNCHANGED <<plan, cur, reports, screenshots>>
    /\ UNCHANGED <<eaVars, rhVars, cfgVars, shotVars, badgeVars, siteVars,
                   waitVars, bfVars, cwVars, fpVars, cbVars>>

\* What capture_screenshot does when the hook calls it: it saves the file, or
\* mkdir or driver.save_screenshot raises.
ShotOutcomes == {"ok", "WebDriverException", "OSError"}

\* The hook's `except Exception as e:` around capture_screenshot.
HookCatches_None == {}

HookCatches == LibExc \cup {"OSError", "ValueError"}

\* pytest_runtest_makereport for the phase that just ended; `shot` is what
\* capture_screenshot does if the hook calls it. What the hook does not catch
\* leaves it before the result is logged, and the run ends in an internal
\* error.
MakeReport(shot) ==
    /\ run_pc \in {"report_setup", "report_call", "report_teardown"}
    /\ LET when == IF run_pc = "report_setup" THEN "setup"
                   ELSE IF run_pc = "report_call" THEN "call" ELSE "teardown"
           captures == ShouldCapture(when, phase_outcome, DriverFixture)
           hook_raised == captures /\ shot # "ok" /\ shot \notin HookCatches
       IN /\ reports' = IF hook_raised THEN reports
                        ELSE Append(reports, [test |-> cur, when |-> when,
                                              outcome |-> phase_outcome])
          /\ screenshots' =
                IF captures
                THEN Append(screenshots, [test |-> cur, driver |-> DriverFixture,
                                          saved |-> shot = "ok"])
                ELSE screenshots
          /\ run_pc' =
                IF hook_raised THEN "internal_error"
                ELSE IF when = "setup"
                THEN (IF phase_outcome = "passed" THEN "call" ELSE "teardown")
                ELSE IF when = "call" THEN "teardown"
                ELSE IF cur < Len(plan) THEN "setup" ELSE "done"
          /\ cur' = IF when = "teardown" /\ cur < Len(plan) THEN cur + 1 ELSE cur
    /\ UNCHANGED <<plan, phase_outcome, fn_driver, cls_driver, cls_state, drivers>>
    /\ UNCHANGED <<eaVars, rhVars, cfgVars, shotVars, badgeVars, siteVars,
                   waitVars, bfVars, cwVars, fpVars, cbVars>>

(***************************************************************************)
(* utils/report_helper.py: ReportHelper.                                   *)
(***************************************************************************)
MaxResults == 2
MaxFiles == 1

None == "None"

\* round(duration, 2), with the duration in milliseconds and the result in
\* hundredths of a second.
Round2(ms) == (ms + 5) \div 10

\* The arguments add_test_result is called with: test_name, status,
\* duration (ms), error_message, screenshot_path. The status is any string:
\* nothing checks it against PASSED, FAILED, SKIPPED.
ResultArgs ==
    {<<"test_a", "PASSED", 0, None, None>>,
     <<"test_a", "FAILED", 1236, "AssertionError", "screenshots/test_a.png">>,
     <<"test_b", "SKIPPED", 0, None, None>>,
     <<"test_b", "ERROR", 0, "fixture error", None>>}

\* self.test_results.append(result)
AddRecord_AtFront(rs, r) == <<r>> \o rs
AddRecord(rs, r) == Append(rs, r)

\* self.test_results = []
Cleared(rs) == <<>>

RECURSIVE CountStatus(_, _)
CountStatus(rs, st) ==
    IF rs = <<>> THEN 0
    ELSE (IF Head(rs).status = st THEN 1 ELSE 0) + CountStatus(Tail(rs), st)

RECURSIVE SumDuration(_)
SumDuration(rs) ==
    IF rs = <<>> THEN 0 ELSE Head(rs).duration + SumDuration(Tail(rs))

\* ReportHelper._generate_summary; pass_rate in hundredths of a percent,
\* total_duration in hundredths of a second.
GenerateSummary(rs) ==
    LET total == Len(rs)
        passed == CountStatus(rs, "PASSED")
    IN [total |-> total,
        passed |-> passed,
        failed |-> CountStatus(rs, "FAILED"),
        skipped |-> CountStatus(rs, "SKIPPED"),
        pass_rate |-> IF total > 0 THEN (passed * 10000) \div total ELSE 0,
        total_duration |-> SumDuration(rs)]

WithStatus(rs, st) == SelectSeq(rs, LAMBDA r : r.status = st)

\* The timestamp is the wall clock at the call; its value is not modelled.
add_test_result(a) ==
    /\ Len(test_results) < MaxResults
    /\ test_results' = AddRecord(test_results,
                                 [test_name |-> a[1], status |-> a[2],
                                  duration |-> Round2(a[3]), timestamp |-> "now",
                                  error_message |-> a[4], screenshot |-> a[5]])
    /\ rh_op' = "add_test_result"
    /\ rh_ret' = None
    /\ UNCHANGED report_files
    /\ UNCHANGED <<eaVars, runVars, cfgVars, shotVars, badgeVars, siteVars,
                   waitVars, bfVars, cwVars, fpVars, cbVars>>

generate_json_report ==
    /\ Len(report_files) < MaxFiles
    /\ report_files' = Append(report_files,
                              [kind |-> "json",
                               summary |-> GenerateSummary(test_results),
                               rows |-> Len(test_results)])
    /\ rh_op' = "generate_json_report"
    /\ rh_ret' = "reports/test_report.json"
    /\ UNCHANGED test_results
    /\ UNCHANGED <<eaVars, runVars, cfgVars, shotVars, badgeVars, siteVars,
                   waitVars, bfVars, cwVars, fpVars, cbVars>>

generate_html_summary ==
    /\ Len(report_files) < MaxFiles
    /\ report_files' = Append(report_files,
                              [kind |-> "html",
                               summary |-> GenerateSummary(test_results),
                               rows |-> Len(test_results)])
    /\ rh_op' = "generate_html_summary"
    /\ rh_ret' = "reports/summary.html"
    /\ UNCHANGED test_results
    /\ UNCHANGED <<eaVars, runVars, cfgVars, shotVars, badgeVars, siteVars,
                   waitVars, bfVars, cwVars, fpVars, cbVars>>

\* The CSV has a header and the rows, or nothing when there are no results.
export_to_csv ==
    /\ Len(report_files) < MaxFiles
    /\ report_files' = Append(report_files,
                              [kind |-> "csv", summary |-> None,
                               rows |-> Len(test_results)])
    /\ rh_op' = "export_to_csv"
    /\ rh_ret' = "reports/test_results.csv"
    /\ UNCHANGED test_results
    /\ UNCHANGED <<eaVars, runVars, cfgVars, shotVars, badgeVars, siteVars,
                   waitVars, bfVars, cwVars, fpVars, cbVars>>

get_failed_tests ==
    /\ rh_op' = "get_failed_tests"
    /\ rh_ret' = WithStatus(test_results, "FAILED")
    /\ UNCHANGED <<test_results, report_files>>
    /\ UNCHANGED <<eaVars, runVars, cfgVars, shotVars, badgeVars, siteVars,
                   waitVars, bfVars, cwVars, fpVars, cbVars>>

get_passed_tests ==
    /\ rh_op' = "get_passed_tests"
    /\ rh_ret' = WithStatus(test_results, "PASSED")
    /\ UNCHANGED <<test_results, report_files>>
    /\ UNCHANGED <<eaVars, runVars, cfgVars, shotVars, badgeVars, siteVars,
                   waitVars, bfVars, cwVars, fpVars, cbVars>>

clear_results ==
    /\ test_results' = Cleared(test_results)
    /\ rh_op' = "clear_results"
    /\ rh_ret' = None
    /\ UNCHANGED report_files
    /\ UNCHANGED <<eaVars, runVars, cfgVars, shotVars, badgeVars, siteVars,
                   waitVars, bfVars, cwVars, fpVars, cbVars>>

(***************************************************************************)
(* config/config.py: Config, and tests/conftest.py: setup_environment.     *)
(***************************************************************************)
MaxConstructs == 3

DefaultTimeout == 10

Unset == "<unset>"

EnvNames == {"dev", "staging", "prod"}

EmptyMap == [e \in {} |-> None]

\* environments.json: a JSON mapping of environment name to settings, a
\* file that is not JSON, or no file.
FileA ==
    [exists |-> TRUE, valid |-> TRUE,
     data |-> [dev |-> [base_url |-> "https://dev.example.com", timeout |-> 15],
               staging |-> [base_url |-> "https://staging.example.com",
                            timeout |-> 20]]]
FileB ==
    [exists |-> TRUE, valid |-> TRUE,
     data |-> [dev |-> [base_url |-> "https://dev2.example.com"]]]
Malformed == [exists |-> TRUE, valid |-> FALSE, data |-> EmptyMap]
Missing == [exists |-> FALSE, valid |-> FALSE, data |-> EmptyMap]
Files == {FileA, FileB, Malformed, Missing}

\* A Config object without an instance attribute _config_data sees the
\* class attribute, None.
NoData == [loaded |-> FALSE, data |-> EmptyMap]

\* str.lower() over the strings of the model.
Lower(str) ==
    CASE str = "Chrome" -> "chrome"
      [] str = "FIREFOX" -> "firefox"
      [] str = "True" -> "true"
      [] str = "TRUE" -> "true"
      [] str = "False" -> "false"
      [] str = "Sauce" -> "sauce"
      [] str = "Labs" -> "labs"
      [] str = "Backpack" -> "backpack"
      [] str = "Bike" -> "bike"
      [] str = "Light" -> "light"
      [] str = "Bolt" -> "bolt"
      [] str = "T" -> "t"
      [] str = "Shirt" -> "shirt"
      [] str = "Fleece" -> "fleece"
      [] str = "Jacket" -> "jacket"
      [] OTHER -> str

\* str(bool)
PyStr(b) == IF b THEN "True" ELSE "False"

\* os.getenv(name, default)
Getenv(env, name, default) == IF env[name] = Unset THEN default ELSE env[name]

\* Config.__new__: `if cls._instance is None`
NeedsInstance_Always(inst) == TRUE
NeedsInstance(inst) == inst = 0

\* Config.__init__: `if self._config_data is None`
NeedsLoad_Always(obj) == TRUE
NeedsLoad(obj) == ~obj.loaded

\* Config._load_config: the exception it raises, or None.
LoadConfig(f) ==
    IF ~f.exists THEN "FileNotFoundError"
    ELSE IF ~f.valid THEN "JSONDecodeError"
    ELSE None

\* Config(): __new__ then __init__, from the class state (inst, objs) and
\* the file f.
Constructed(inst, objs, f) ==
    LET fresh == NeedsInstance(inst)
        id == IF fresh THEN Len(objs) + 1 ELSE inst
        objs1 == IF fresh THEN Append(objs, NoData) ELSE objs
        load == NeedsLoad(objs1[id])
        failure == IF load THEN LoadConfig(f) ELSE None
    IN [instance |-> id,
        objects |-> IF load /\ failure = None
                    THEN [objs1 EXCEPT ![id] = [loaded |-> TRUE, data |-> f.data]]
                    ELSE objs1,
        opened |-> load /\ f.exists,
        exc |-> failure]

\* Config.get_env_config(env) on the loaded data.
GetEnvConfig(data, env, name) ==
    LET e == IF name = None THEN Getenv(env, "ENV", "dev") ELSE name
    IN IF e \notin DOMAIN data
       THEN [exc |-> "ValueError", val |-> EmptyMap]
       ELSE [exc |-> None, val |-> data[e]]

\* Config.get(key, env, default): the exception raised (None: none), and
\* the value when none was raised.
GetExc(data, env, name) == GetEnvConfig(data, env, name).exc
GetVal(data, env, key, name, default) ==
    LET env_config == GetEnvConfig(data, env, name).val
    IN IF key \in DOMAIN env_config THEN env_config[key] ELSE default

\* The properties of Config.
ConfigBaseUrl(data, env) == GetVal(data, env, "base_url", None, None)
ConfigTimeout(data, env) == GetVal(data, env, "timeout", None, DefaultTimeout)
ConfigBrowser(env) == Lower(Getenv(env, "BROWSER", "chrome"))
ConfigHeadless_NoLower(env) == Getenv(env, "HEADLESS", "false") = "true"
ConfigHeadless(env) == Lower(Getenv(env, "HEADLESS", "false")) = "true"
ConfigEnvironment(env) == Getenv(env, "ENV", "dev")

Properties == {"base_url", "timeout", "browser", "headless", "environment"}

LoadedData == objects[instance].data

\* `config = Config()` when config.config is imported. An exception aborts
\* the import, and nothing of the module can be used.
Import ==
    /\ cfg_pc = "unimported"
    /\ LET c == Constructed(instance, objects, file)
       IN /\ instance' = c.instance
          /\ objects' = c.objects
          /\ reads' = reads + (IF c.opened THEN 1 ELSE 0)
          /\ cfg_exc' = c.exc
          /\ cfg_ret' = c.instance
          /\ cfg_pc' = IF c.exc = None THEN "imported" ELSE "import_failed"
    /\ constructs' = constructs + 1
    /\ cfg_op' = "Config"
    /\ cfg_arg' = None
    /\ UNCHANGED <<file, environ, cli_pc, cli>>
    /\ UNCHANGED <<eaVars, runVars, rhVars, shotVars, badgeVars, siteVars,
                   waitVars, bfVars, cwVars, fpVars, cbVars>>

\* Config() called again.
Construct ==
    /\ cfg_pc = "imported"
    /\ constructs < MaxConstructs
    /\ LET c == Constructed(instance, objects, file)
       IN /\ instance' = c.instance
          /\ objects' = c.objects
          /\ reads' = reads + (IF c.opened THEN 1 ELSE 0)
          /\ cfg_exc' = c.exc
          /\ cfg_ret' = c.instance
    /\ constructs' = constructs + 1
    /\ cfg_op' = "Config"
    /\ cfg_arg' = None
    /\ UNCHANGED <<cfg_pc, file, environ, cli_pc, cli>>
    /\ UNCHANGED <<eaVars, runVars, rhVars, shotVars, badgeVars, siteVars,
                   waitVars, bfVars, cwVars, fpVars, cbVars>>

get_env_config(name) ==
    /\ cfg_pc = "imported"
    /\ LET r == GetEnvConfig(LoadedData, environ, name)
       IN /\ cfg_exc' = r.exc
          /\ cfg_ret' = r.val
    /\ cfg_op' = "get_env_config"
    /\ cfg_arg' = name
    /\ UNCHANGED <<cfg_pc, instance, objects, file, reads, constructs, environ,
                   cli_pc, cli>>
    /\ UNCHANGED <<eaVars, runVars, rhVars, shotVars, badgeVars, siteVars,
                   waitVars, bfVars, cwVars, fpVars, cbVars>>

\* config.base_url, config.timeout, config.browser, config.headless and
\* config.environment.
ReadProperty(p) ==
    /\ cfg_pc = "imported"
    /\ cfg_exc' = IF p \in {"base_url", "timeout"}
                  THEN GetExc(LoadedData, environ, None)
                  ELSE None
    /\ cfg_ret' = IF cfg_exc' # None THEN None
                  ELSE CASE p = "base_url" -> ConfigBaseUrl(LoadedData, environ)
                         [] p = "timeout" -> ConfigTimeout(LoadedData, environ)
                         [] p = "browser" -> ConfigBrowser(environ)
                         [] p = "headless" -> ConfigHeadless(environ)
                         [] p = "environment" -> ConfigEnvironment(environ)
    /\ cfg_op' = p
    /\ cfg_arg' = None
    /\ UNCHANGED <<cfg_pc, instance, objects, file, reads, constructs, environ,
                   cli_pc, cli>>
    /\ UNCHANGED <<eaVars, runVars, rhVars, shotVars, badgeVars, siteVars,
                   waitVars, bfVars, cwVars, fpVars, cbVars>>

\* The values the process environment gives a variable.
EnvValues(name) ==
    CASE name = "ENV" -> {Unset, "dev", "staging", "prod"}
      [] name = "BROWSER" -> {Unset, "Chrome", "firefox"}
      [] name = "HEADLESS" -> {Unset, "true", "True", "false"}

\* ENV, BROWSER or HEADLESS is set or unset from outside the framework.
SetEnv(name, value) ==
    /\ environ[name] # value
    /\ environ' = [environ EXCEPT ![name] = value]
    /\ UNCHANGED <<cfg_pc, instance, objects, file, reads, constructs,
                   cfg_op, cfg_arg, cfg_exc, cfg_ret, cli_pc, cli>>
    /\ UNCHANGED <<eaVars, runVars, rhVars, shotVars, badgeVars, siteVars,
                   waitVars, bfVars, cwVars, fpVars, cbVars>>

\* The environment the test run is launched in.
LaunchEnv(name, value) ==
    /\ cfg_pc = "unimported"
    /\ SetEnv(name, value)

\* environments.json is replaced on disk.
EditFile(f) ==
    /\ file # f
    /\ file' = f
    /\ UNCHANGED <<cfg_pc, instance, objects, reads, constructs, environ,
                   cfg_op, cfg_arg, cfg_exc, cfg_ret, cli_pc, cli>>
    /\ UNCHANGED <<eaVars, runVars, rhVars, shotVars, badgeVars, siteVars,
                   waitVars, bfVars, cwVars, fpVars, cbVars>>

\* The values given to --browser, --headless and --env.
BrowserOptions == {"chrome", "Chrome", "FIREFOX"}
HeadlessOptions == {"true", "True", "TRUE", "false", "False", "no"}

\* The session fixture setup_environment, up to its yield; it raises what
\* config.base_url raises.
setup_environment(b, h, e) ==
    /\ cfg_pc = "imported"
    /\ cli_pc = "pending"
    /\ LET headless == Lower(h) = "true"
       IN environ' = [BROWSER |-> b, HEADLESS |-> PyStr(headless), ENV |-> e]
    /\ cfg_exc' = GetExc(LoadedData, environ', None)
    /\ cli_pc' = IF cfg_exc' = None THEN "done" ELSE "failed"
    /\ cli' = [browser |-> b, headless |-> h, env |-> e]
    /\ cfg_op' = "setup_environment"
    /\ cfg_arg' = None
    /\ cfg_ret' = None
    /\ UNCHANGED <<cfg_pc, instance, objects, file, reads, constructs>>
    /\ UNCHANGED <<eaVars, runVars, rhVars, shotVars, badgeVars, siteVars,
                   waitVars, bfVars, cwVars, fpVars, cbVars>>

InitConfig ==
    /\ cfg_pc = "unimported"
    /\ instance = 0
    /\ objects = <<>>
    /\ file = FileA
    /\ reads = 0
    /\ constructs = 0
    /\ environ = [BROWSER |-> Unset, HEADLESS |-> Unset, ENV |-> Unset]
    /\ cfg_op = "none"
    /\ cfg_arg = None
    /\ cfg_exc = None
    /\ cfg_ret = None
    /\ cli_pc = "pending"
    /\ cli = [browser |-> None, headless |-> None, env |-> None]

(***************************************************************************)
(* utils/screenshot.py: capture_screenshot, and the names the makereport   *)
(* hook of tests/conftest.py gives it. A string is the sequence of its     *)
(* pieces; ".png" is one piece and no other piece contains a dot.          *)
(***************************************************************************)
MaxNameLen == 2
MaxShots == 2

Png == <<".png">>

\* str.endswith
EndsWith(str, suffix) ==
    /\ Len(str) >= Len(suffix)
    /\ SubSeq(str, Len(str) - Len(suffix) + 1, Len(str)) = suffix

\* datetime.now().strftime('%Y%m%d_%H%M%S'); the clock is not modelled.
Timestamp == <<"20240101_120000">>

\* The argument None, kept apart from every string.
NameNone == <<None>>

\* All strings of at most n pieces.
RECURSIVE Strings(_, _)
Strings(pieces, n) ==
    IF n = 0 THEN {<<>>}
    ELSE LET shorter == Strings(pieces, n - 1)
         IN shorter \cup {Append(str, c) : str \in shorter, c \in pieces}

\* The names a caller passes, and item.name of the collected tests.
DirectNames == Strings({"shot", ".png"}, MaxNameLen) \cup {NameNone}
ItemNames == {<<"test_login">>, <<"test_upload", "[", "a", ".png", "]">>}

\* `if not name.endswith('.png'): name = f"{name}.png"`
EnsurePng_Always(name) == name \o Png
EnsurePng(name) == IF ~EndsWith(name, Png) THEN name \o Png ELSE name

\* screenshot_dir / name, after the default name and the extension.
ScreenshotPath(name, directory) ==
    LET given == IF name = NameNone THEN <<"screenshot_">> \o Timestamp ELSE name
    IN <<directory, "/">> \o EnsurePng(given)

\* screenshot_name = f"{test_name}_{timestamp}"
HookScreenshotName(item) == item \o <<"_">> \o Timestamp

\* capture_screenshot(driver, name): driver.save_screenshot(path) saves the
\* file and the path is returned, or it raises and the exception is logged
\* and raised again.
capture_screenshot(name, out) ==
    /\ Cardinality(shot_files) < MaxShots
    /\ shot_caller' = "direct"
    /\ shot_name' = name
    /\ shot_exc' = IF out = "ok" THEN None ELSE out
    /\ shot_ret' = IF out = "ok" THEN ScreenshotPath(name, "screenshots") ELSE <<>>
    /\ shot_files' = IF out = "ok" THEN shot_files \cup {shot_ret'} ELSE shot_files
    /\ UNCHANGED <<eaVars, runVars, rhVars, cfgVars, badgeVars, siteVars,
                   waitVars, bfVars, cwVars, fpVars, cbVars>>

\* The makereport hook for a test that failed in its call phase with a
\* driver: it calls capture_screenshot and logs what it raises.
HookCapture(item, out) ==
    /\ Cardinality(shot_files) < MaxShots
    /\ shot_caller' = "hook"
    /\ shot_name' = HookScreenshotName(item)
    /\ shot_exc' = IF out = "ok" THEN None ELSE out
    /\ shot_ret' = IF out = "ok"
                   THEN ScreenshotPath(shot_name', "screenshots") ELSE <<>>
    /\ shot_files' = IF out = "ok" THEN shot_files \cup {shot_ret'} ELSE shot_files
    /\ UNCHANGED <<eaVars, runVars, rhVars, cfgVars, badgeVars, siteVars,
                   waitVars, bfVars, cwVars, fpVars, cbVars>>

InitShot ==
    /\ shot_caller = "none"
    /\ shot_name = <<>>
    /\ shot_exc = None
    /\ shot_ret = <<>>
    /\ shot_files = {}

(***************************************************************************)
(* pages/dashboard_page.py: DashboardPage.get_cart_item_count. A text is   *)
(* the sequence of its characters.                                         *)
(***************************************************************************)
MaxBadgeLen == 2

DigitText == <<"0", "1", "2", "3", "4", "5", "6", "7", "8", "9">>
Digits == {DigitText[i] : i \in 1..10}
BadgeChars == {"1", "2", "a", " "}

DigitValue(c) == (CHOOSE i \in 1..10 : DigitText[i] = c) - 1

\* str.strip() of the blanks at both ends.
RECURSIVE Strip(_)
Strip(text) ==
    IF text = <<>> THEN text
    ELSE IF Head(text) = " " THEN Strip(Tail(text))
    ELSE IF text[Len(text)] = " " THEN Strip(SubSeq(text, 1, Len(text) - 1))
    ELSE text

RECURSIVE Decimal(_)
Decimal(digits) ==
    IF digits = <<>> THEN 0
    ELSE 10 * Decimal(SubSeq(digits, 1, Len(digits) - 1))
         + DigitValue(digits[Len(digits)])

\* int(text): the number, or ValueError.
PyInt(text) ==
    LET body == Strip(text)
    IN IF body # <<>> /\ \A i \in 1..Len(body) : body[i] \in Digits
       THEN [exc |-> None, val |-> Decimal(body)]
       ELSE [exc |-> "ValueError", val |-> 0]

\* BasePage.is_element_present: True, False on a timeout, or the exception.
IsElementPresent(found) ==
    IF found = "found" THEN [exc |-> None, val |-> TRUE]
    ELSE IF found \in BasePageCatches("is_element_present")
    THEN [exc |-> None, val |-> FALSE]
    ELSE [exc |-> found, val |-> FALSE]

\* The body of the try of get_cart_item_count; `read` is what get_text did.
CartCountBody(found, read) ==
    LET present == IsElementPresent(found)
    IN IF present.exc # None THEN [exc |-> present.exc, val |-> 0]
       ELSE IF ~present.val THEN [exc |-> None, val |-> 0]
       ELSE IF read.exc # None THEN [exc |-> read.exc, val |-> 0]
       ELSE IF read.text = <<>> THEN [exc |-> None, val |-> 0]
       ELSE PyInt(read.text)

\* DashboardPage.get_cart_item_count: the body in `try`, `except Exception`
\* logs, and 0 is returned.
DashGetCartItemCount(found, read) ==
    LET r == CartCountBody(found, read)
    IN IF r.exc = None THEN r
       ELSE IF r.exc \in DashboardPageCatches("get_cart_item_count")
       THEN [exc |-> None, val |-> 0]
       ELSE r

BadgeTexts == Strings(BadgeChars, MaxBadgeLen)
BadgeReads ==
    {[exc |-> None, text |-> t] : t \in BadgeTexts}
    \cup {[exc |-> e, text |-> <<>>] : e \in LibExc}

\* ProductsPage.get_cart_item_count: the same steps with no try around them
\* and no test of the text before int().
ProductsPageCount_Guarded(found, read) == DashGetCartItemCount(found, read)

ProductsPageCount(found, read) ==
    LET present == IsElementPresent(found)
    IN IF present.exc # None THEN [exc |-> present.exc, val |-> 0]
       ELSE IF ~present.val THEN [exc |-> None, val |-> 0]
       ELSE IF read.exc # None THEN [exc |-> read.exc, val |-> 0]
       ELSE PyInt(read.text)

PP_get_cart_item_count(found, read) ==
    /\ badge_page' = "ProductsPage"
    /\ badge_found' = found
    /\ badge_text' = read
    /\ LET r == ProductsPageCount(found, read)
       IN /\ badge_exc' = r.exc
          /\ badge_ret' = r.val
    /\ UNCHANGED <<eaVars, runVars, rhVars, cfgVars, shotVars, siteVars,
                   waitVars, bfVars, cwVars, fpVars, cbVars>>

get_cart_item_count(found, read) ==
    /\ badge_page' = "DashboardPage"
    /\ badge_found' = found
    /\ badge_text' = read
    /\ LET r == DashGetCartItemCount(found, read)
       IN /\ badge_exc' = r.exc
          /\ badge_ret' = r.val
    /\ UNCHANGED <<eaVars, runVars, rhVars, cfgVars, shotVars, siteVars,
                   waitVars, bfVars, cwVars, fpVars, cbVars>>

InitBadge ==
    /\ badge_found = "none"
    /\ badge_text = [exc |-> None, text |-> <<>>]
    /\ badge_exc = None
    /\ badge_ret = -1
    /\ badge_page = "none"

(***************************************************************************)
(* The site under test, as the locators of pages/*.py and the assertions   *)
(* of tests/*.py describe it, in one browser session. An element is named  *)
(* by the pieces of its id or class.                                       *)
(***************************************************************************)
MaxListed == 2

\* The products of the inventory page, in the order listed: display name
\* and the id its buttons carry.
Catalog ==
    <<[name |-> <<"Sauce", " ", "Labs", " ", "Backpack">>,
       id |-> <<"sauce", "-", "labs", "-", "backpack">>],
      [name |-> <<"Sauce", " ", "Labs", " ", "Bike", " ", "Light">>,
       id |-> <<"sauce", "-", "labs", "-", "bike", "-", "light">>],
      [name |-> <<"Sauce", " ", "Labs", " ", "Bolt", " ", "T", "-", "Shirt">>,
       id |-> <<"sauce", "-", "labs", "-", "bolt", "-", "t", "-", "shirt">>],
      [name |-> <<"Sauce", " ", "Labs", " ", "Fleece", " ", "Jacket">>,
       id |-> <<"sauce", "-", "labs", "-", "fleece", "-", "jacket">>]>>

\* The accounts: the users of the test_users fixture log in with
\* secret_sauce; locked_out_user is refused.
Password == <<"secret_sauce">>
AcceptedUsers == {<<"standard_user">>, <<"performance_glitch_user">>}
LockedUsers == {<<"locked_out_user">>}

\* What the login form does with the two fields when its button is clicked.
LoginVerdict(user, pass) ==
    IF user = <<>> THEN "Username is required"
    ELSE IF pass = <<>> THEN "Password is required"
    ELSE IF user \in LockedUsers /\ pass = Password THEN "locked out"
    ELSE IF user \in AcceptedUsers /\ pass = Password THEN "accepted"
    ELSE "do not match"

\* The browser before the first page is loaded.
Blank ==
    [page |-> "blank", user_field |-> <<>>, pass_field |-> <<>>,
     error |-> None, session |-> <<>>, cart |-> {}, listed |-> 0,
     menu |-> FALSE, keeps_cart |-> FALSE]

LoginScreen(s) ==
    [s EXCEPT !.page = "login", !.user_field = <<>>, !.pass_field = <<>>,
              !.error = None, !.menu = FALSE]

InCatalog(s, id) == {i \in 1..s.listed : Catalog[i].id = id}

\* The elements on the page.
Elements(s) ==
    CASE s.page = "login" ->
           {<<"user-name">>, <<"password">>, <<"login-button">>,
            <<"login_logo">>}
           \cup (IF s.error # None THEN {<<"error">>, <<"error-button">>} ELSE {})
      [] s.page = "inventory" ->
           {<<"app_logo">>, <<"title">>, <<"react-burger-menu-btn">>}
           \cup (IF s.menu THEN {<<"logout_sidebar_link">>} ELSE {})
           \cup (IF s.cart # {} THEN {<<"shopping_cart_badge">>} ELSE {})
           \cup {<<"add-to-cart-">> \o Catalog[i].id :
                    i \in (1..s.listed) \ s.cart}
           \cup {<<"remove-">> \o Catalog[i].id : i \in s.cart}
      [] OTHER -> {}

\* element.text
TextOf(s, el) ==
    CASE el = <<"title">> ->
           <<"Products">>
      [] el = <<"shopping_cart_badge">> -> <<DigitText[Cardinality(s.cart) + 1]>>
      [] el = <<"error">> -> <<s.error>>
      [] OTHER -> <<>>

\* driver.current_url
UrlOf(s) ==
    CASE s.page = "login" -> <<"https://www.saucedemo.com/">>
      [] s.page = "inventory" ->
           <<"https://www.saucedemo.com/", "inventory.html">>
      [] OTHER -> <<"about:blank">>

\* What a click on an element of the page does.
Clicked(s, el) ==
    CASE el = <<"login-button">> ->
           LET verdict == LoginVerdict(s.user_field, s.pass_field)
           IN IF verdict = "accepted"
              THEN [s EXCEPT !.page = "inventory", !.session = s.user_field,
                             !.user_field = <<>>, !.pass_field = <<>>,
                             !.error = None]
              ELSE [s EXCEPT !.error = verdict]
      [] el = <<"error-button">> -> [s EXCEPT !.error = None]
      [] el = <<"react-burger-menu-btn">> -> [s EXCEPT !.menu = TRUE]
      [] el = <<"logout_sidebar_link">> ->
           [LoginScreen(s) EXCEPT !.session = <<>>,
                                  !.cart = IF s.keeps_cart THEN s.cart ELSE {}]
      [] Head(el) = "add-to-cart-" ->
           [s EXCEPT !.cart = @ \cup InCatalog(s, Tail(el))]
      [] Head(el) = "remove-" ->
           [s EXCEPT !.cart = @ \ InCatalog(s, Tail(el))]
      [] OTHER -> s

(***************************************************************************)
(* core/base_page.py and pages/*.py over the browser: an operation is a    *)
(* sequence of element interactions, cut short by the first that times out.*)
(***************************************************************************)
USERNAME_INPUT == <<"user-name">>
PASSWORD_INPUT == <<"password">>
LOGIN_BUTTON == <<"login-button">>
ERROR_MESSAGE == <<"error">>
ERROR_BUTTON == <<"error-button">>
LOGIN_LOGO == <<"login_logo">>
APP_LOGO == <<"app_logo">>
PAGE_TITLE == <<"title">>
SHOPPING_CART_BADGE == <<"shopping_cart_badge">>
BURGER_MENU == <<"react-burger-menu-btn">>
LOGOUT_LINK == <<"logout_sidebar_link">>

Interaction(act, el, text) == [act |-> act, el |-> el, text |-> text]

\* One interaction with the page: find/visible/click wait for the element
\* and time out when it is not there.
Interact(s, i) ==
    IF i.el \notin Elements(s) THEN [s |-> s, exc |-> "TimeoutException"]
    ELSE [exc |-> None,
          s |-> CASE i.act = "click" -> Clicked(s, i.el)
                  [] i.act = "clear" /\ i.el = USERNAME_INPUT ->
                       [s EXCEPT !.user_field = <<>>]
                  [] i.act = "clear" /\ i.el = PASSWORD_INPUT ->
                       [s EXCEPT !.pass_field = <<>>]
                  [] i.act = "send_keys" /\ i.el = USERNAME_INPUT ->
                       [s EXCEPT !.user_field = @ \o i.text]
                  [] i.act = "send_keys" /\ i.el = PASSWORD_INPUT ->
                       [s EXCEPT !.pass_field = @ \o i.text]
                  [] OTHER -> s]

RECURSIVE Perform(_, _, _)
Perform(s, todo, done) ==
    IF todo = <<>> THEN [s |-> s, exc |-> None, log |-> done]
    ELSE LET r == Interact(s, Head(todo))
         IN IF r.exc # None THEN [s |-> s, exc |-> r.exc, log |-> done]
            ELSE Perform(r.s, Tail(todo), Append(done, Head(todo)))

\* BasePage.click
Click(locator) == <<Interaction("click", locator, <<>>)>>
\* BasePage.type_text(locator, text, clear_first=True)
\* BasePage.type_text(locator, text, clear)
TypeText_NeverClears(locator, text, clear) ==
    <<Interaction("send_keys", locator, text)>>

TypeText(locator, text, clear) ==
    (IF clear THEN <<Interaction("clear", locator, <<>>)>> ELSE <<>>)
    \o <<Interaction("send_keys", locator, text)>>

\* BasePage.clear_field
ClearField(locator) == <<Interaction("clear", locator, <<>>)>>

\* BasePage.is_element_present / is_element_visible
IsPresent(s, locator) == locator \in Elements(s)

\* LoginPage.enter_username / enter_password: clear_first is left at its
\* default, True
EnterUsername(username) == TypeText(USERNAME_INPUT, username, TRUE)
EnterPassword(password) == TypeText(PASSWORD_INPUT, password, TRUE)

\* LoginPage.login
LoginSteps_NoSubmit(username, password) ==
    EnterUsername(username) \o EnterPassword(password)

LoginSteps(username, password) ==
    EnterUsername(username) \o EnterPassword(password) \o Click(LOGIN_BUTTON)

\* product_name.lower().replace(' ', '-')
ProductId_LowerOnly(product_name) ==
    [i \in 1..Len(product_name) |-> Lower(product_name[i])]

ProductId(product_name) ==
    [i \in 1..Len(product_name) |->
        IF product_name[i] = " " THEN "-" ELSE Lower(product_name[i])]

AddButton(product_name) == <<"add-to-cart-">> \o ProductId(product_name)
RemoveButton(product_name) == <<"remove-">> \o ProductId(product_name)

\* find_elements(ADD_TO_CART_BUTTONS): the buttons whose id starts with
\* add-to-cart, in page order
RECURSIVE AddButtonsFrom(_, _)
AddButtonsFrom(s, i) ==
    IF i > s.listed THEN <<>>
    ELSE (IF i \in s.cart THEN <<>> ELSE <<<<"add-to-cart-">> \o Catalog[i].id>>)
         \o AddButtonsFrom(s, i + 1)

AddToCartButtons(s) == IF s.page = "inventory" THEN AddButtonsFrom(s, 1) ELSE <<>>

\* range(min(count, len(buttons)))
ClickCount_All(count, len) == len

ClickCount(count, len) ==
    LET m == IF count < len THEN count ELSE len IN IF m < 0 THEN 0 ELSE m

\* ProductsPage.get_cart_item_count
ProductsCartCount(s) ==
    IF IsPresent(s, SHOPPING_CART_BADGE)
    THEN PyInt(TextOf(s, SHOPPING_CART_BADGE))
    ELSE [exc |-> None, val |-> 0]

\* ProductsPage.is_displayed
ProductsIsDisplayed(s) ==
    /\ IsPresent(s, PAGE_TITLE)
    /\ \E i \in 1..Len(TextOf(s, PAGE_TITLE)) : TextOf(s, PAGE_TITLE)[i] = "Products"

\* LoginPage.is_displayed
LoginIsDisplayed(s) == IsPresent(s, LOGIN_LOGO) /\ IsPresent(s, USERNAME_INPUT)

\* "inventory.html" in driver.current_url
UrlContains(s, piece) == \E i \in 1..Len(UrlOf(s)) : UrlOf(s)[i] = piece

\* tests/conftest.py: the test_users and invalid_credentials fixtures
TestUsers == AcceptedUsers \cup LockedUsers
Usernames == TestUsers \cup {<<>>}
Passwords == {Password, <<"invalid_password">>, <<>>}
ProductNames == {Catalog[i].name : i \in 1..MaxListed} \cup {Catalog[1].id}
Counts == (0 - 1)..(MaxListed + 1)

\* LoginPage.navigate in a fresh browser; the site lists `listed` products
\* and either keeps or empties a cart at logout.
navigate(listed, keeps_cart) ==
    /\ site.page = "blank"
    /\ site' = [LoginScreen(site) EXCEPT !.listed = listed,
                                         !.keeps_cart = keeps_cart]
    /\ site_before' = site
    /\ site_op' = "navigate"
    /\ site_arg' = <<>>
    /\ site_exc' = None
    /\ site_ret' = None
    /\ dom_log' = <<>>
    /\ UNCHANGED <<eaVars, runVars, rhVars, cfgVars, shotVars, badgeVars,
                   waitVars, bfVars, cwVars, fpVars, cbVars>>

login(username, password) ==
    /\ site.page # "blank"
    /\ LET r == Perform(site, LoginSteps(username, password), <<>>)
       IN /\ site' = r.s
          /\ site_exc' = r.exc
          /\ dom_log' = r.log
    /\ site_before' = site
    /\ site_op' = "login"
    /\ site_arg' = <<username, password>>
    /\ site_ret' = None
    /\ UNCHANGED <<eaVars, runVars, rhVars, cfgVars, shotVars, badgeVars,
                   waitVars, bfVars, cwVars, fpVars, cbVars>>

enter_username(username) ==
    /\ site.page # "blank"
    /\ LET r == Perform(site, EnterUsername(username), <<>>)
       IN /\ site' = r.s
          /\ site_exc' = r.exc
          /\ dom_log' = r.log
    /\ site_before' = site
    /\ site_op' = "enter_username"
    /\ site_arg' = <<username>>
    /\ site_ret' = None
    /\ UNCHANGED <<eaVars, runVars, rhVars, cfgVars, shotVars, badgeVars,
                   waitVars, bfVars, cwVars, fpVars, cbVars>>

enter_password(password) ==
    /\ site.page # "blank"
    /\ LET r == Perform(site, EnterPassword(password), <<>>)
       IN /\ site' = r.s
          /\ site_exc' = r.exc
          /\ dom_log' = r.log
    /\ site_before' = site
    /\ site_op' = "enter_password"
    /\ site_arg' = <<password>>
    /\ site_ret' = None
    /\ UNCHANGED <<eaVars, runVars, rhVars, cfgVars, shotVars, badgeVars,
                   waitVars, bfVars, cwVars, fpVars, cbVars>>

click_login_button ==
    /\ site.page # "blank"
    /\ LET r == Perform(site, Click(LOGIN_BUTTON), <<>>)
       IN /\ site' = r.s
          /\ site_exc' = r.exc
          /\ dom_log' = r.log
    /\ site_before' = site
    /\ site_op' = "click_login_button"
    /\ site_arg' = <<>>
    /\ site_ret' = None
    /\ UNCHANGED <<eaVars, runVars, rhVars, cfgVars, shotVars, badgeVars,
                   waitVars, bfVars, cwVars, fpVars, cbVars>>

close_error_message ==
    /\ site.page # "blank"
    /\ LET r == Perform(site, Click(ERROR_BUTTON), <<>>)
       IN /\ site' = r.s
          /\ site_exc' = r.exc
          /\ dom_log' = r.log
    /\ site_before' = site
    /\ site_op' = "close_error_message"
    /\ site_arg' = <<>>
    /\ site_ret' = None
    /\ UNCHANGED <<eaVars, runVars, rhVars, cfgVars, shotVars, badgeVars,
                   waitVars, bfVars, cwVars, fpVars, cbVars>>

clear_username ==
    /\ site.page # "blank"
    /\ LET r == Perform(site, ClearField(USERNAME_INPUT), <<>>)
       IN /\ site' = r.s
          /\ site_exc' = r.exc
          /\ dom_log' = r.log
    /\ site_before' = site
    /\ site_op' = "clear_username"
    /\ site_arg' = <<>>
    /\ site_ret' = None
    /\ UNCHANGED <<eaVars, runVars, rhVars, cfgVars, shotVars, badgeVars,
                   waitVars, bfVars, cwVars, fpVars, cbVars>>

clear_password ==
    /\ site.page # "blank"
    /\ LET r == Perform(site, ClearField(PASSWORD_INPUT), <<>>)
       IN /\ site' = r.s
          /\ site_exc' = r.exc
          /\ dom_log' = r.log
    /\ site_before' = site
    /\ site_op' = "clear_password"
    /\ site_arg' = <<>>
    /\ site_ret' = None
    /\ UNCHANGED <<eaVars, runVars, rhVars, cfgVars, shotVars, badgeVars,
                   waitVars, bfVars, cwVars, fpVars, cbVars>>

add_product_to_cart_by_name(product_name) ==
    /\ site.page # "blank"
    /\ LET r == Perform(site, Click(AddButton(product_name)), <<>>)
       IN /\ site' = r.s
          /\ site_exc' = r.exc
          /\ dom_log' = r.log
    /\ site_before' = site
    /\ site_op' = "add_product_to_cart_by_name"
    /\ site_arg' = <<product_name>>
    /\ site_ret' = None
    /\ UNCHANGED <<eaVars, runVars, rhVars, cfgVars, shotVars, badgeVars,
                   waitVars, bfVars, cwVars, fpVars, cbVars>>

remove_product_from_cart_by_name(product_name) ==
    /\ site.page # "blank"
    /\ LET r == Perform(site, Click(RemoveButton(product_name)), <<>>)
       IN /\ site' = r.s
          /\ site_exc' = r.exc
          /\ dom_log' = r.log
    /\ site_before' = site
    /\ site_op' = "remove_product_from_cart_by_name"
    /\ site_arg' = <<product_name>>
    /\ site_ret' = None
    /\ UNCHANGED <<eaVars, runVars, rhVars, cfgVars, shotVars, badgeVars,
                   waitVars, bfVars, cwVars, fpVars, cbVars>>

\* buttons[i].click() for the first min(count, len(buttons)) buttons found
add_first_n_products_to_cart(count) ==
    /\ site.page # "blank"
    /\ LET buttons == AddToCartButtons(site)
           n == ClickCount(count, Len(buttons))
           r == Perform(site, [i \in 1..n |->
                                 Interaction("click", buttons[i], <<>>)], <<>>)
       IN /\ site' = r.s
          /\ site_exc' = r.exc
          /\ dom_log' = r.log
    /\ site_before' = site
    /\ site_op' = "add_first_n_products_to_cart"
    /\ site_arg' = <<count>>
    /\ site_ret' = None
    /\ UNCHANGED <<eaVars, runVars, rhVars, cfgVars, shotVars, badgeVars,
                   waitVars, bfVars, cwVars, fpVars, cbVars>>

\* ProductsPage.logout
products_logout ==
    /\ site.page # "blank"
    /\ LET r == Perform(site, Click(BURGER_MENU) \o Click(LOGOUT_LINK), <<>>)
       IN /\ site' = r.s
          /\ site_exc' = r.exc
          /\ dom_log' = r.log
    /\ site_before' = site
    /\ site_op' = "ProductsPage.logout"
    /\ site_arg' = <<>>
    /\ site_ret' = None
    /\ UNCHANGED <<eaVars, runVars, rhVars, cfgVars, shotVars, badgeVars,
                   waitVars, bfVars, cwVars, fpVars, cbVars>>

\* DashboardPage.logout: open_menu waits for the logout link to be visible
dashboard_logout ==
    /\ site.page # "blank"
    /\ LET r == Perform(site, Click(BURGER_MENU)
                              \o <<Interaction("visible", LOGOUT_LINK, <<>>)>>
                              \o Click(LOGOUT_LINK), <<>>)
       IN /\ site' = r.s
          /\ site_exc' = r.exc
          /\ dom_log' = r.log
    /\ site_before' = site
    /\ site_op' = "DashboardPage.logout"
    /\ site_arg' = <<>>
    /\ site_ret' = None
    /\ UNCHANGED <<eaVars, runVars, rhVars, cfgVars, shotVars, badgeVars,
                   waitVars, bfVars, cwVars, fpVars, cbVars>>

\* ProductsPage.get_cart_item_count
products_get_cart_item_count ==
    /\ site.page # "blank"
    /\ LET r == ProductsCartCount(site)
       IN /\ site_exc' = r.exc
          /\ site_ret' = r.val
    /\ site_before' = site
    /\ site_op' = "ProductsPage.get_cart_item_count"
    /\ site_arg' = <<>>
    /\ dom_log' = <<>>
    /\ UNCHANGED site
    /\ UNCHANGED <<eaVars, runVars, rhVars, cfgVars, shotVars, badgeVars,
                   waitVars, bfVars, cwVars, fpVars, cbVars>>

\* DashboardPage.get_cart_item_count on the page
dashboard_get_cart_item_count ==
    /\ site.page # "blank"
    /\ LET r == DashGetCartItemCount(
                    IF IsPresent(site, SHOPPING_CART_BADGE)
                    THEN "found" ELSE "TimeoutException",
                    [exc |-> None, text |-> TextOf(site, SHOPPING_CART_BADGE)])
       IN /\ site_exc' = r.exc
          /\ site_ret' = r.val
    /\ site_before' = site
    /\ site_op' = "DashboardPage.get_cart_item_count"
    /\ site_arg' = <<>>
    /\ dom_log' = <<>>
    /\ UNCHANGED site
    /\ UNCHANGED <<eaVars, runVars, rhVars, cfgVars, shotVars, badgeVars,
                   waitVars, bfVars, cwVars, fpVars, cbVars>>

is_product_in_cart(product_name) ==
    /\ site.page # "blank"
    /\ site_ret' = IsPresent(site, RemoveButton(product_name))
    /\ site_exc' = None
    /\ site_before' = site
    /\ site_op' = "is_product_in_cart"
    /\ site_arg' = <<product_name>>
    /\ dom_log' = <<>>
    /\ UNCHANGED site
    /\ UNCHANGED <<eaVars, runVars, rhVars, cfgVars, shotVars, badgeVars,
                   waitVars, bfVars, cwVars, fpVars, cbVars>>

InitSite ==
    /\ site = Blank
    /\ site_before = Blank
    /\ site_op = "none"
    /\ site_arg = <<>>
    /\ site_exc = None
    /\ site_ret = None
    /\ dom_log = <<>>

(***************************************************************************)
(* core/base_page.py: the operations that wait for an element. Time is in  *)
(* whole seconds; WebDriverWait finds what appears within its timeout.     *)
(***************************************************************************)
MaxWait == 3
PresentTimeout == 5

NoTimeout == <<>>
Never == <<>>

\* WebDriverWait(driver, timeout).until(condition)
Until(appears, timeout) ==
    IF appears # Never /\ appears[1] <= timeout THEN "found"
    ELSE "TimeoutException"

\* timeout = timeout or config.timeout: None and 0 are both falsy.
EffectiveTimeout(timeout, configured) ==
    IF timeout = NoTimeout \/ timeout[1] = 0 THEN configured ELSE timeout[1]

\* The operations of BasePage that wait themselves.
WaitMethods ==
    {"find_element", "find_elements", "is_element_present",
     "is_element_visible", "click", "wait_for_element_visible"}

\* The timeout an operation hands to WebDriverWait: is_element_present has
\* its own default and uses its parameter as it is.
TimeoutUsed(m, timeout, configured) ==
    IF m = "is_element_present"
    THEN (IF timeout = NoTimeout THEN PresentTimeout ELSE timeout[1])
    ELSE EffectiveTimeout(timeout, configured)

\* What an operation does with the TimeoutException of its wait: its except
\* clause returns the fallback, or there is none and the exception leaves.
OnTimeout_Raises(m) == [exc |-> "TimeoutException", ret |-> None]

OnTimeout(m) ==
    IF "TimeoutException" \in BasePageCatches(m)
    THEN [exc |-> None, ret |-> BasePageFallback(m)]
    ELSE [exc |-> "TimeoutException", ret |-> None]

\* What an operation returns when its wait succeeds.
OnFound(m) ==
    CASE m \in {"is_element_present", "is_element_visible"} -> "True"
      [] m = "find_elements" -> "elements"
      [] m = "click" -> None
      [] OTHER -> "element"

Waited(m, timeout, configured, appears) ==
    IF Until(appears, TimeoutUsed(m, timeout, configured)) = "found"
    THEN [exc |-> None, ret |-> OnFound(m)]
    ELSE OnTimeout(m)

Timeouts == {NoTimeout} \cup {<<t>> : t \in 0..MaxWait}
ConfiguredTimeouts == 1..MaxWait
Appearances == {Never} \cup {<<t>> : t \in 0..(MaxWait + 1)}

\* One of the waiting operations of BasePage is called.
WaitCall(m, timeout, configured, appears) ==
    /\ wait_op' = m
    /\ wait_timeout' = timeout
    /\ wait_config' = configured
    /\ wait_appears' = appears
    /\ wait_used' = TimeoutUsed(m, timeout, configured)
    /\ LET r == Waited(m, timeout, configured, appears)
       IN /\ wait_exc' = r.exc
          /\ wait_ret' = r.ret
    /\ UNCHANGED <<eaVars, runVars, rhVars, cfgVars, shotVars, badgeVars,
                   siteVars, bfVars, cwVars, fpVars, cbVars>>

\* ProductsPage.get_product_count: len(find_elements(PRODUCT_ITEMS)); n
\* items are listed once they appear.
get_product_count(configured, appears, n) ==
    /\ wait_op' = "get_product_count"
    /\ wait_timeout' = NoTimeout
    /\ wait_config' = configured
    /\ wait_appears' = appears
    /\ wait_used' = TimeoutUsed("find_elements", NoTimeout, configured)
    /\ LET r == Waited("find_elements", NoTimeout, configured, appears)
       IN /\ wait_exc' = r.exc
          /\ wait_ret' = IF r.exc # None THEN 0
                         ELSE IF r.ret = "elements" THEN n ELSE 0
    /\ UNCHANGED <<eaVars, runVars, rhVars, cfgVars, shotVars, badgeVars,
                   siteVars, bfVars, cwVars, fpVars, cbVars>>

\* ProductsPage.add_first_n_products_to_cart over the buttons its
\* find_elements returned; the value kept is the number of clicks.
add_first_n_waiting(count, configured, appears, n) ==
    /\ wait_op' = "add_first_n_products_to_cart"
    /\ wait_timeout' = NoTimeout
    /\ wait_config' = configured
    /\ wait_appears' = appears
    /\ wait_used' = TimeoutUsed("find_elements", NoTimeout, configured)
    /\ LET r == Waited("find_elements", NoTimeout, configured, appears)
       IN /\ wait_exc' = r.exc
          /\ wait_ret' = IF r.exc # None THEN 0
                         ELSE ClickCount(count, IF r.ret = "elements" THEN n ELSE 0)
    /\ UNCHANGED <<eaVars, runVars, rhVars, cfgVars, shotVars, badgeVars,
                   siteVars, bfVars, cwVars, fpVars, cbVars>>

InitWait ==
    /\ wait_op = "none"
    /\ wait_timeout = NoTimeout
    /\ wait_config = 1
    /\ wait_appears = Never
    /\ wait_used = 0
    /\ wait_exc = None
    /\ wait_ret = None

(***************************************************************************)
(* core/browser_factory.py: BrowserFactory.get_driver. Python's None,      *)
(* True and False are written as strings.                                  *)
(***************************************************************************)
SupportedBrowsers == {"chrome", "firefox", "edge", "safari"}

\* browser = browser or config.browser
ChosenBrowser(browser, configured) ==
    IF browser \in {None, ""} THEN configured ELSE browser

\* headless = headless if headless is not None else config.headless
ChosenHeadless_IfTruthy(headless, configured) ==
    IF headless = "True" THEN headless ELSE configured

ChosenHeadless(headless, configured) ==
    IF headless # None THEN headless ELSE configured

\* The if/elif chain of get_driver and the _get_*_driver it calls: the
\* headless arguments are added to the options of chrome, firefox and edge;
\* _get_safari_driver takes no headless parameter. `out` is what creating
\* and initialising the browser does.
GetDriverResult(browser, headless, config_browser, config_headless, out) ==
    LET name == ChosenBrowser(browser, config_browser)
        mode == ChosenHeadless(headless, config_headless)
    IN IF name \notin SupportedBrowsers
       THEN [exc |-> "ValueError", created |-> FALSE, browser |-> name,
             headless |-> mode, options_headless |-> "False"]
       ELSE [exc |-> IF out = "ok" THEN None ELSE "WebDriverException",
             created |-> out # "start_failed", browser |-> name,
             headless |-> mode,
             options_headless |-> IF name = "safari" THEN "False" ELSE mode]

BrowserArgs == SupportedBrowsers \cup {None, "", "Chrome", "opera"}
HeadlessArgs == {None, "True", "False"}
ConfigBrowsers == {"chrome", "firefox", "opera"}

get_driver(browser, headless, config_browser, config_headless, out) ==
    /\ bf_call' = [browser |-> browser, headless |-> headless,
                   config_browser |-> config_browser,
                   config_headless |-> config_headless]
    /\ bf_result' = GetDriverResult(browser, headless, config_browser,
                                    config_headless, out)
    /\ UNCHANGED <<eaVars, runVars, rhVars, cfgVars, shotVars, badgeVars,
                   siteVars, waitVars, cwVars, fpVars, cbVars>>

InitFactory ==
    /\ bf_call = [browser |-> None, headless |-> None,
                  config_browser |-> "chrome", config_headless |-> "False"]
    /\ bf_result = [exc |-> None, created |-> FALSE, browser |-> "none",
                    headless |-> "False", options_headless |-> "False"]

(***************************************************************************)
(* core/waits.py: the locator-based predicates of CustomWaitConditions and *)
(* a wait polling one of them. A text is the sequence of its characters;   *)
(* an attribute that is not set reads as None.                             *)
(***************************************************************************)
MaxPolls == 2

Expected == <<"o", "k">>
NoneValue == <<None>>
TextValues == {<<>>, Expected, <<"o", "k", "!">>}

LocatorPredicates ==
    {"element_text_to_be", "element_text_contains", "element_attribute_to_be",
     "element_attribute_contains", "element_to_be_selected",
     "element_to_be_not_selected", "element_css_property_to_be"}

\* `value in text`
Contains(text, value) ==
    \E i \in 0..(Len(text) - Len(value)) :
        SubSeq(text, i + 1, i + Len(value)) = value

Bool(b) == IF b THEN "True" ELSE "False"

\* The element is absent, or stale (found, but reading it raises), or there
\* with the properties the predicates read.
Absent ==
    [state |-> "absent", text |-> <<>>, attribute |-> NoneValue,
     selected |-> FALSE, css |-> <<>>]
Stale == [Absent EXCEPT !.state = "stale"]
There == [Absent EXCEPT !.state = "present"]

\* The states of the element that differ for predicate kind.
ElementStates(kind) ==
    {Absent, Stale}
    \cup CASE kind \in {"element_text_to_be", "element_text_contains"} ->
                {[There EXCEPT !.text = t] : t \in TextValues}
           [] kind \in {"element_attribute_to_be", "element_attribute_contains"} ->
                {[There EXCEPT !.attribute = a] : a \in TextValues \cup {NoneValue}}
           [] kind = "element_css_property_to_be" ->
                {[There EXCEPT !.css = c] : c \in TextValues}
           [] OTHER -> {[There EXCEPT !.selected = b] : b \in BOOLEAN}

\* The body of the try of a _predicate on an element that was found.
PredicateValue(kind, el) ==
    CASE kind = "element_text_to_be" -> Bool(el.text = Expected)
      [] kind = "element_text_contains" -> Bool(Contains(el.text, Expected))
      [] kind = "element_attribute_to_be" -> Bool(el.attribute = Expected)
      [] kind = "element_attribute_contains" ->
           IF el.attribute = NoneValue THEN None
           ELSE IF el.attribute = <<>> THEN "''"
           ELSE Bool(Contains(el.attribute, Expected))
      [] kind = "element_to_be_selected" -> Bool(el.selected)
      [] kind = "element_to_be_not_selected" -> Bool(~el.selected)
      [] OTHER -> Bool(el.css = Expected)

\* except NoSuchElementException: return False
PredicateCatches_Nothing == {}

PredicateCatches == {"NoSuchElementException"}

\* _predicate(driver): driver.find_element raises NoSuchElementException for
\* an absent element; reading a stale one raises
\* StaleElementReferenceException.
Predicate(kind, el) ==
    LET raised == IF el.state = "absent" THEN "NoSuchElementException"
                  ELSE IF el.state = "stale"
                  THEN "StaleElementReferenceException" ELSE None
    IN IF raised = None THEN [exc |-> None, val |-> PredicateValue(kind, el)]
       ELSE IF raised \in PredicateCatches THEN [exc |-> None, val |-> "False"]
       ELSE [exc |-> raised, val |-> None]

\* The exceptions WebDriverWait.until ignores between polls.
WaitIgnores == {"NoSuchElementException"}

\* SmartWait.until(condition) begins.
until(kind) ==
    /\ cw.status # "polling"
    /\ cw' = [kind |-> kind, polls |-> 0, status |-> "polling",
              exc |-> None, val |-> None, seen |-> Absent]
    /\ cw_element' \in ElementStates(kind)
    /\ UNCHANGED <<eaVars, runVars, rhVars, cfgVars, shotVars, badgeVars,
                   siteVars, waitVars, bfVars, fpVars, cbVars>>

\* The page changes while the wait sleeps.
ElementChanges(el) ==
    /\ cw.status = "polling"
    /\ el \in ElementStates(cw.kind)
    /\ el # cw_element
    /\ cw_element' = el
    /\ UNCHANGED cw
    /\ UNCHANGED <<eaVars, runVars, rhVars, cfgVars, shotVars, badgeVars,
                   siteVars, waitVars, bfVars, fpVars, cbVars>>

\* One round of WebDriverWait.until: evaluate the predicate; a truthy value
\* ends the wait, an exception that is not ignored leaves it, and after the
\* last poll the wait times out.
Poll ==
    /\ cw.status = "polling"
    /\ LET r == Predicate(cw.kind, cw_element)
       IN cw' = [cw EXCEPT
                    !.polls = @ + 1,
                    !.exc = r.exc,
                    !.val = r.val,
                    !.seen = cw_element,
                    !.status = IF r.exc # None /\ r.exc \notin WaitIgnores
                               THEN "raised"
                               ELSE IF r.exc = None /\ r.val = "True"
                               THEN "satisfied"
                               ELSE IF cw.polls + 1 > MaxPolls THEN "timeout"
                               ELSE "polling"]
    /\ UNCHANGED cw_element
    /\ UNCHANGED <<eaVars, runVars, rhVars, cfgVars, shotVars, badgeVars,
                   siteVars, waitVars, bfVars, fpVars, cbVars>>

InitConditions ==
    /\ cw = [kind |-> "none", polls |-> 0, status |-> "idle", exc |-> None,
             val |-> None, seen |-> Absent]
    /\ cw_element = Absent

(***************************************************************************)
(* utils/screenshot.py: capture_full_page_screenshot. Every call on the    *)
(* driver either works or raises; a set_window_size that raises may or may *)
(* not have resized the window.                                            *)
(***************************************************************************)
WindowSizes == {<<1024, 768>>, <<1920, 1080>>}
PageSize == <<1024, 3000>>
Unbound == <<>>

CallOutcomes == {"ok", "raised"}
ResizeOutcomes == {"ok", "raised", "raised_resized"}

\* The outcomes of the driver calls of one run, should the run reach them:
\* get_window_size, the two execute_script, set_window_size to the page,
\* save_screenshot, set_window_size back, and the set_window_size of the
\* except block.
DriverOutcomes ==
    [get : CallOutcomes, script : CallOutcomes, resize : ResizeOutcomes,
     save : CallOutcomes, restore : CallOutcomes, handler : CallOutcomes]

NoOutcomes ==
    [get |-> "ok", script |-> "ok", resize |-> "ok", save |-> "ok",
     restore |-> "ok", handler |-> "ok"]

\* The except block: `try: driver.set_window_size(original_size...)
\* except: pass`; with original_size unbound the lookup raises and is
\* swallowed as well.
RestoreOnError_Skipped(window, original_size, out) ==
    [window |-> window, trace |-> <<>>]

RestoreOnError(window, original_size, out) ==
    IF original_size = Unbound THEN [window |-> window, trace |-> <<>>]
    ELSE [window |-> IF out = "ok" THEN original_size ELSE window,
          trace |-> <<<<"set_window_size", original_size, out>>>>]

\* The try block, statement by statement up to the first that raises.
FullPageBody(window, outs) ==
    IF outs.get # "ok"
    THEN [window |-> window, original_size |-> Unbound, raised |-> TRUE,
          trace |-> <<<<"get_window_size", window, outs.get>>>>]
    ELSE IF outs.script # "ok"
    THEN [window |-> window, original_size |-> window, raised |-> TRUE,
          trace |-> <<<<"get_window_size", window, "ok">>,
                      <<"execute_script", PageSize, outs.script>>>>]
    ELSE IF outs.resize # "ok"
    THEN [window |-> IF outs.resize = "raised_resized" THEN PageSize ELSE window,
          original_size |-> window, raised |-> TRUE,
          trace |-> <<<<"get_window_size", window, "ok">>,
                      <<"execute_script", PageSize, "ok">>,
                      <<"set_window_size", PageSize, outs.resize>>>>]
    ELSE IF outs.save # "ok"
    THEN [window |-> PageSize, original_size |-> window, raised |-> TRUE,
          trace |-> <<<<"get_window_size", window, "ok">>,
                      <<"execute_script", PageSize, "ok">>,
                      <<"set_window_size", PageSize, "ok">>,
                      <<"save_screenshot", PageSize, outs.save>>>>]
    ELSE [window |-> IF outs.restore = "ok" THEN window ELSE PageSize,
          original_size |-> window, raised |-> outs.restore # "ok",
          trace |-> <<<<"get_window_size", window, "ok">>,
                      <<"execute_script", PageSize, "ok">>,
                      <<"set_window_size", PageSize, "ok">>,
                      <<"save_screenshot", PageSize, "ok">>,
                      <<"set_window_size", window, outs.restore>>>>]

capture_full_page_screenshot(outs) ==
    /\ LET body == FullPageBody(fp_window, outs)
           handled == RestoreOnError(body.window, body.original_size,
                                     outs.handler)
       IN IF body.raised
          THEN /\ fp_window' = handled.window
               /\ fp_call' = [before |-> fp_window, exc |-> "WebDriverException",
                              ret |-> None, outs |-> outs,
                              trace |-> body.trace \o handled.trace]
          ELSE /\ fp_window' = body.window
               /\ fp_call' = [before |-> fp_window, exc |-> None,
                              ret |-> "screenshots/fullpage.png",
                              outs |-> outs, trace |-> body.trace]
    /\ UNCHANGED <<eaVars, runVars, rhVars, cfgVars, shotVars, badgeVars,
                   siteVars, waitVars, bfVars, cwVars, cbVars>>

\* The test resizes the window between captures.
set_window_size(size) ==
    /\ size # fp_window
    /\ fp_window' = size
    /\ fp_call' = [before |-> fp_window, exc |-> None, ret |-> None,
                   outs |-> NoOutcomes, trace |-> <<>>]
    /\ UNCHANGED <<eaVars, runVars, rhVars, cfgVars, shotVars, badgeVars,
                   siteVars, waitVars, bfVars, cwVars, cbVars>>

InitFullPage ==
    /\ fp_window = <<1024, 768>>
    /\ fp_call = [before |-> <<1024, 768>>, exc |-> None, ret |-> None,
                  outs |-> NoOutcomes, trace |-> <<>>]

(***************************************************************************)
(* core/element_actions.py: checkbox_select and checkbox_deselect. The     *)
(* element answers is_selected() or raises; its click() toggles the        *)
(* checkbox, raises, or is ignored by a disabled checkbox.                 *)
(***************************************************************************)
SelectedOutcomes == {"ok", "raised"}
ClickOutcomes == {"toggles", "raised", "ignored"}
CheckboxOps == {"checkbox_select", "checkbox_deselect"}

\* `if not element.is_selected()` / `if element.is_selected()`
NeedsClick_Always(method, selected) == TRUE

NeedsClick(method, selected) ==
    IF method = "checkbox_select" THEN ~selected ELSE selected

\* One call: what it did to the element and what it returned.
CheckboxCall(method, selected, sel_out, click_out) ==
    IF sel_out = "raised"
    THEN [op |-> method, before |-> selected, clicks |-> 0, ret |-> FALSE,
          after |-> selected]
    ELSE IF ~NeedsClick(method, selected)
    THEN [op |-> method, before |-> selected, clicks |-> 0, ret |-> TRUE,
          after |-> selected]
    ELSE [op |-> method, before |-> selected, clicks |-> 1,
          ret |-> click_out # "raised",
          after |-> IF click_out = "toggles" THEN ~selected ELSE selected]

MaxCalls == 3

Recent(calls) == IF Len(calls) > MaxCalls THEN Tail(calls) ELSE calls

checkbox_select(sel_out, click_out) ==
    /\ LET call == CheckboxCall("checkbox_select", cb_selected, sel_out,
                                click_out)
       IN /\ cb_selected' = call.after
          /\ cb_calls' = Recent(Append(cb_calls, call))
    /\ UNCHANGED <<eaVars, runVars, rhVars, cfgVars, shotVars, badgeVars,
                   siteVars, waitVars, bfVars, cwVars, fpVars>>

checkbox_deselect(sel_out, click_out) ==
    /\ LET call == CheckboxCall("checkbox_deselect", cb_selected, sel_out,
                                click_out)
       IN /\ cb_selected' = call.after
          /\ cb_calls' = Recent(Append(cb_calls, call))
    /\ UNCHANGED <<eaVars, runVars, rhVars, cfgVars, shotVars, badgeVars,
                   siteVars, waitVars, bfVars, cwVars, fpVars>>

\* Something other than these two methods changes the checkbox.
CheckboxChanges ==
    /\ cb_selected' = ~cb_selected
    /\ cb_calls' = <<>>
    /\ UNCHANGED <<eaVars, runVars, rhVars, cfgVars, shotVars, badgeVars,
                   siteVars, waitVars, bfVars, cwVars, fpVars>>

InitCheckbox ==
    /\ cb_selected \in BOOLEAN
    /\ cb_calls = <<>>

InitRun ==
    /\ run_pc = "idle"
    /\ plan = <<>>
    /\ cur = 0
    /\ phase_outcome = "none"
    /\ fn_driver = 0
    /\ cls_driver = 0
    /\ cls_state = "none"
    /\ drivers = <<>>
    /\ reports = <<>>
    /\ screenshots = <<>>

InitRH ==
    /\ test_results = <<>>
    /\ report_files = <<>>
    /\ rh_op = "none"
    /\ rh_ret = "none"


vars == <<eaVars, runVars, rhVars, cfgVars, shotVars, badgeVars, siteVars,
          waitVars, bfVars, cwVars, fpVars, cbVars>>

Init == InitEA /\ InitRun /\ InitRH /\ InitConfig /\ InitShot /\ InitBadge
        /\ InitSite /\ InitWait /\ InitFactory
        /\ InitConditions /\ InitFullPage
        /\ InitCheckbox

Next ==
    \/ \E rc \in 0..MaxRetry : Call_safe_click(rc)
    \/ \E out \in {"ok"} \cup LibExc : ClickAttempt(out)
    \/ \E out \in {"ok"} \cup LibExc : JsClick(out)
    \/ \E rc \in 0..MaxRetry, cf \in BOOLEAN : Call_safe_send_keys(rc, cf)
    \/ \E failAt \in {"clear", "send_keys"}, out \in {"ok"} \cup LibExc :
          SendKeysAttempt(failAt, out)
    \/ Sleep
    \/ LoopExit
    \/ \E top \in WrapperOps, e \in LibExc :
          \E c \in Paths(top, MaxCallDepth) : Invoke(top, c, e)
    \/ Finish

Spec == Init /\ [][Next]_vars

\* A call runs to its end: the thread is synchronous, and every library call
\* and every sleep returns or raises.
RetryStep ==
    \/ \E out \in {"ok"} \cup LibExc : ClickAttempt(out)
    \/ \E out \in {"ok"} \cup LibExc : JsClick(out)
    \/ \E failAt \in {"clear", "send_keys"}, out \in {"ok"} \cup LibExc :
          SendKeysAttempt(failAt, out)
    \/ Sleep
    \/ LoopExit

SpecFair == Spec /\ WF_vars(RetryStep)

NextRunner ==
    \/ \E n \in 1..MaxTests : \E p \in [1..n -> Kinds] : SessionStart(p)
    \/ Setup_skipped
    \/ Setup_none
    \/ \E out \in GetDriverOutcomes, login_out \in {"ok", "raised"} :
          Setup_driver(out, login_out)
    \/ \E out \in GetDriverOutcomes : Setup_class_driver(out)
    \/ \E outcome \in {"passed", "failed", "skipped"} : Call(outcome)
    \/ \E quit_out \in QuitOutcomes : Teardown(quit_out)
    \/ \E shot \in ShotOutcomes : MakeReport(shot)

SpecRunner == Init /\ [][NextRunner]_vars

NextReport ==
    \/ \E a \in ResultArgs : add_test_result(a)
    \/ generate_json_report
    \/ generate_html_summary
    \/ export_to_csv
    \/ get_failed_tests
    \/ get_passed_tests
    \/ clear_results

SpecReport == Init /\ [][NextReport]_vars

NextShot ==
    \/ \E name \in DirectNames, out \in {"ok", "WebDriverException"} :
          capture_screenshot(name, out)
    \/ \E item \in ItemNames, out \in {"ok", "WebDriverException"} :
          HookCapture(item, out)

SpecShot == Init /\ [][NextShot]_vars

NextBadge ==
    \E found \in {"found"} \cup LibExc, read \in BadgeReads :
       \/ get_cart_item_count(found, read)
       \/ PP_get_cart_item_count(found, read)

SpecBadge == Init /\ [][NextBadge]_vars

NextSite ==
    \/ \E listed \in 0..MaxListed, keeps_cart \in BOOLEAN :
          navigate(listed, keeps_cart)
    \/ \E username \in Usernames, password \in Passwords :
          login(username, password)
    \/ \E username \in Usernames : enter_username(username)
    \/ \E password \in Passwords : enter_password(password)
    \/ click_login_button
    \/ close_error_message
    \/ clear_username
    \/ clear_password
    \/ \E product_name \in ProductNames :
          \/ add_product_to_cart_by_name(product_name)
          \/ remove_product_from_cart_by_name(product_name)
          \/ is_product_in_cart(product_name)
    \/ \E count \in Counts : add_first_n_products_to_cart(count)
    \/ products_logout
    \/ dashboard_logout
    \/ products_get_cart_item_count
    \/ dashboard_get_cart_item_count

SpecSite == Init /\ [][NextSite]_vars

NextWait ==
    \/ \E m \in WaitMethods, timeout \in Timeouts,
          configured \in ConfiguredTimeouts, appears \in Appearances :
          WaitCall(m, timeout, configured, appears)
    \/ \E configured \in ConfiguredTimeouts, appears \in Appearances,
          n \in 1..2 :
          \/ get_product_count(configured, appears, n)
          \/ \E count \in 1..2 :
                add_first_n_waiting(count, configured, appears, n)

SpecWait == Init /\ [][NextWait]_vars

NextFactory ==
    \E browser \in BrowserArgs, headless \in HeadlessArgs,
       config_browser \in ConfigBrowsers, config_headless \in {"True", "False"},
       out \in GetDriverOutcomes :
       get_driver(browser, headless, config_browser, config_headless, out)

SpecFactory == Init /\ [][NextFactory]_vars

NextConditions ==
    \/ \E kind \in LocatorPredicates : until(kind)
    \/ \E el \in ElementStates(cw.kind) : ElementChanges(el)
    \/ Poll

SpecConditions == Init /\ [][NextConditions]_vars

NextFullPage ==
    \/ \E outs \in DriverOutcomes : capture_full_page_screenshot(outs)
    \/ \E size \in WindowSizes : set_window_size(size)

SpecFullPage == Init /\ [][NextFullPage]_vars

NextCheckbox ==
    \/ \E sel_out \in SelectedOutcomes, click_out \in ClickOutcomes :
          checkbox_select(sel_out, click_out)
    \/ \E sel_out \in SelectedOutcomes, click_out \in ClickOutcomes :
          checkbox_deselect(sel_out, click_out)
    \/ CheckboxChanges

SpecCheckbox == Init /\ [][NextCheckbox]_vars

NextConfig ==
    \/ Import
    \/ Construct
    \/ \E name \in EnvNames \cup {None} : get_env_config(name)
    \/ \E p \in Properties : ReadProperty(p)
    \/ \E name \in {"ENV", "BROWSER", "HEADLESS"} :
          \E value \in EnvValues(name) : SetEnv(name, value)
    \/ \E f \in Files : EditFile(f)
    \/ \E e \in EnvNames : setup_environment("FIREFOX", "True", e)

SpecConfig == Init /\ [][NextConfig]_vars

NextCli ==
    \/ \E name \in {"ENV", "BROWSER", "HEADLESS"} :
          \E value \in EnvValues(name) : LaunchEnv(name, value)
    \/ Import
    \/ \E b \in BrowserOptions, h \in HeadlessOptions, e \in EnvNames :
          setup_environment(b, h, e)
    \/ \E p \in Properties : ReadProperty(p)

SpecCli == Init /\ [][NextCli]_vars

C9_SettingsImmutable ==
    [][cfg_pc = "imported" =>
          /\ cfg_pc' = "imported"
          /\ objects'[instance'].data = objects[instance].data
          /\ (cfg_op' = "get_env_config" /\ cfg_arg' # None /\ cfg_exc' = None) =>
                cfg_ret' = objects[instance].data[cfg_arg']
          /\ (cfg_op' = "get_env_config" /\ cfg_arg' # None /\ cfg_exc' # None) =>
                cfg_arg' \notin DOMAIN objects[instance].data]_vars

\* C9 witness: get_env_config("dev") is answered from the loaded settings
\* after Config() was constructed again, the file changed on disk and the
\* environment variables changed.
C9_Witness ==
    /\ cfg_pc = "imported"
    /\ cfg_op = "get_env_config"
    /\ cfg_arg = "dev"
    /\ cfg_exc = None
    /\ cfg_ret = FileA.data["dev"]
    /\ file = FileB
    /\ constructs >= 2
    /\ environ["ENV"] = "staging"
    /\ environ["BROWSER"] = "firefox"
    /\ environ["HEADLESS"] = "true"

\* C10: after setup_environment ran with --browser b, --headless h and
\* --env e, config.browser is lowercase(b), config.headless is
\* (lowercase(h) = "true"), config.environment is e and config.base_url is
\* the base_url of environment e, at every later read.
C10_CliOverrides ==
    cli_pc # "pending" =>
        /\ ConfigBrowser(environ) = Lower(cli.browser)
        /\ ConfigHeadless(environ) = (Lower(cli.headless) = "true")
        /\ ConfigEnvironment(environ) = cli.env
        /\ cli.env \in DOMAIN LoadedData =>
              /\ cli_pc = "done"
              /\ GetExc(LoadedData, environ, None) = None
              /\ ConfigBaseUrl(LoadedData, environ) = LoadedData[cli.env].base_url
        /\ cfg_op = "browser" => cfg_ret = Lower(cli.browser)
        /\ cfg_op = "headless" => cfg_ret = (Lower(cli.headless) = "true")
        /\ cfg_op = "environment" => cfg_ret = cli.env
        /\ (cfg_op = "base_url" /\ cli_pc = "done") =>
              (cfg_exc = None /\ cfg_ret = LoadedData[cli.env].base_url)

\* C10 witness: the options differ from the launch environment, in case
\* too, and config.headless is read after setup_environment.
C10_Witness ==
    /\ cli_pc = "done"
    /\ cli = [browser |-> "FIREFOX", headless |-> "True", env |-> "staging"]
    /\ cfg_op = "headless"
    /\ cfg_ret = TRUE

(***************************************************************************)
(* Claims about the cart badge (SpecBadge).                                *)
(***************************************************************************)
\* The number a text of digits shows.
RECURSIVE Pow10(_)
Pow10(n) == IF n = 0 THEN 1 ELSE 10 * Pow10(n - 1)

RECURSIVE SumUpTo(_, _)
SumUpTo(text, i) ==
    IF i = 0 THEN 0
    ELSE SumUpTo(text, i - 1) + DigitValue(text[i]) * Pow10(Len(text) - i)

\* C16: DashboardPage.get_cart_item_count never raises; it returns 0 when
\* the badge is absent, when its text is empty or not a number, and when
\* waiting for the badge or reading it fails; otherwise it returns the
\* integer the badge shows.
C16_CartCountTotal ==
    badge_page = "DashboardPage" =>
        LET text == badge_text.text
            absent == badge_found = "TimeoutException"
            failed == badge_found \notin {"found", "TimeoutException"}
                      \/ badge_text.exc # None
            number == text # <<>> /\ \A i \in 1..Len(text) : text[i] \in Digits
            no_number == \E i \in 1..Len(text) : text[i] = "a"
        IN /\ badge_exc = None
           /\ (absent \/ failed \/ text = <<>> \/ no_number) => badge_ret = 0
           /\ (~absent /\ ~failed /\ number) => badge_ret = SumUpTo(text, Len(text))

\* C16 witness: the badge was found and its text was not a number.
C16_Witness ==
    /\ badge_page = "DashboardPage"
    /\ badge_found = "found"
    /\ badge_text = [exc |-> None, text |-> <<"2", "a">>]
    /\ badge_exc = None
    /\ badge_ret = 0

(***************************************************************************)
(* Claims about the screenshots (SpecShot).                                *)
(***************************************************************************)
\* What capture_screenshot returned is in the screenshots directory, was
\* saved, and is the given name with ".png" appended exactly when the name
\* did not already end with it; the hook's file is <test name>_<timestamp>.png.
C18_NameAndSuffix ==
    LET given == IF shot_name = NameNone
                 THEN <<"screenshot_">> \o Timestamp ELSE shot_name
        saved_as == SubSeq(shot_ret, 3, Len(shot_ret))
    IN /\ SubSeq(shot_ret, 1, 2) = <<"screenshots", "/">>
       /\ shot_ret \in shot_files
       /\ EndsWith(given, Png) => saved_as = given
       /\ ~EndsWith(given, Png) => saved_as = given \o Png
       /\ EndsWith(shot_ret, Png)
       /\ shot_caller = "hook" =>
             /\ \E item \in ItemNames :
                   saved_as = item \o <<"_">> \o Timestamp \o Png
             /\ ~EndsWith(shot_ret, Png \o Png)

Returned == shot_caller # "none" /\ shot_exc = None

\* C18 as stated: the screenshot is saved in the screenshots directory under
\* <test name>_<timestamp>.png; ".png" is appended exactly when the given
\* name does not end with it, so the returned path always ends with exactly
\* one ".png".
C18_Original ==
    Returned => (C18_NameAndSuffix /\ ~EndsWith(shot_ret, Png \o Png))

\* C18 amended: as stated, but the returned path ends with exactly one
\* ".png" only when the given name does not itself end with two: the names
\* of the hook never do, and capture_screenshot adds no second suffix but
\* removes none either.
C18_SuffixEnsured ==
    Returned =>
        /\ C18_NameAndSuffix
        /\ EndsWith(shot_ret, Png \o Png) <=> EndsWith(shot_name, Png \o Png)

\* C18 witness: a name that already ends with ".png" was returned as given,
\* after the hook's screenshot of a failed test was saved.
C18_Witness ==
    /\ Returned
    /\ shot_caller = "direct"
    /\ shot_name = <<"shot", ".png">>
    /\ shot_ret = <<"screenshots", "/", "shot", ".png">>
    /\ <<"screenshots", "/", "test_login", "_">> \o Timestamp \o Png \in shot_files

(***************************************************************************)
(* Claims about the report helper (SpecReport).                            *)
(***************************************************************************)
IsPrefix(a, b) == Len(a) <= Len(b) /\ SubSeq(b, 1, Len(a)) = a

\* C7 as stated: test_results is append-only under every ReportHelper
\* operation, clear_results included: every record once in the list stays
\* in it, at the same position.
C7_Original == [][IsPrefix(test_results, test_results')]_vars

\* C7 amended: under every ReportHelper operation other than clear_results
\* every record once in the list stays in it at the same position (only
\* add_test_result changes the list, by appending one record);
\* clear_results empties the list.
C7_AppendOnlyExceptClear ==
    [][/\ rh_op' # "clear_results" => IsPrefix(test_results, test_results')
       /\ rh_op' \notin {"clear_results", "add_test_result"} =>
             test_results' = test_results
       /\ rh_op' = "add_test_result" => Len(test_results') = Len(test_results) + 1
       /\ rh_op' = "clear_results" => test_results' = <<>>]_vars

\* C7 witness: results were added, written to a file and then cleared.
C7_Witness ==
    /\ rh_op = "clear_results"
    /\ test_results = <<>>
    /\ Len(report_files) = 1
    /\ report_files[1].rows = 2

(***************************************************************************)
(* Claims about the test session (SpecRunner).                             *)
(***************************************************************************)
SetupPassed(t) ==
    \/ \E i \in 1..Len(reports) :
          reports[i] = [test |-> t, when |-> "setup", outcome |-> "passed"]
    \/ cur = t /\ run_pc = "report_setup" /\ phase_outcome = "passed"

TornDown(t) ==
    \/ \E i \in 1..Len(reports) : reports[i].test = t /\ reports[i].when = "teardown"
    \/ cur = t /\ run_pc = "report_teardown"

FunctionDrivers == {d \in 1..Len(drivers) : drivers[d].scope = "function"}

\* C4 as stated: a test using the function-scoped driver fixture has
\* exactly one driver created before its body, quit_driver is called on it
\* exactly once, after the body, whatever the outcome; and never do two
\* drivers created by the fixture exist un-quit at the same time.
C4_Original ==
    /\ \A t \in 1..Len(plan) :
          (plan[t] \in {"driver", "logged_in_driver"} /\ SetupPassed(t)) =>
             LET mine == {d \in FunctionDrivers : drivers[d].owner = t}
             IN /\ Cardinality(mine) = 1
                /\ \A d \in mine :
                      drivers[d].quit_driver_calls = IF TornDown(t) THEN 1 ELSE 0
    /\ Cardinality({d \in FunctionDrivers :
                       drivers[d].quit_driver_calls = 0}) <= 1

\* What holds of the drivers get_driver returned to the fixture: each is
\* quit exactly once, in the teardown of its test, and at most one of them
\* is un-quit at any time.
YieldedDriversQuitOnce ==
    /\ \A t \in 1..Len(plan) :
          (plan[t] \in {"driver", "logged_in_driver"} /\ SetupPassed(t)) =>
             LET mine == {d \in FunctionDrivers : drivers[d].owner = t}
             IN /\ Cardinality(mine) = 1
                /\ \A d \in mine :
                      /\ drivers[d].returned
                      /\ drivers[d].quit_driver_calls =
                            IF TornDown(t) THEN 1 ELSE 0
    /\ Cardinality({d \in FunctionDrivers :
                       drivers[d].returned /\ drivers[d].quit_driver_calls = 0}) <= 1

\* C5 as stated: whenever a test is recorded as failed, in any phase, the
\* hook invokes capture_screenshot for that test.
C5_Original ==
    \A i \in 1..Len(reports) :
       reports[i].outcome = "failed" =>
          \E j \in 1..Len(screenshots) : screenshots[j].test = reports[i].test

\* C5 amended: capture_screenshot is invoked for a test exactly when the
\* test is recorded as failed in its call phase and it has a driver (the
\* driver fixture, or the driver of its class); failures of setup or
\* teardown, and of tests without a driver, get no screenshot.
C5_ScreenshotOnCallFailure ==
    /\ \A i \in 1..Len(reports) :
          (/\ reports[i].when = "call"
           /\ reports[i].outcome = "failed"
           /\ plan[reports[i].test] # "none") =>
             \E j \in 1..Len(screenshots) :
                /\ screenshots[j].test = reports[i].test
                /\ screenshots[j].driver # 0
                /\ drivers[screenshots[j].driver].owner <= reports[i].test
    /\ \A j \in 1..Len(screenshots) :
          /\ plan[screenshots[j].test] # "none"
          /\ \E i \in 1..Len(reports) :
                reports[i] = [test |-> screenshots[j].test, when |-> "call",
                              outcome |-> "failed"]
          /\ \A k \in 1..Len(screenshots) :
                screenshots[k].test = screenshots[j].test => k = j

\* C5 witness: a test with a driver failed in its call phase and the hook
\* called capture_screenshot; another test failed in setup without one.
C5_Witness ==
    /\ Len(screenshots) = 1
    /\ \E i \in 1..Len(reports) :
          reports[i].when = "setup" /\ reports[i].outcome = "failed"
    /\ \E i \in 1..Len(reports) :
          reports[i].when = "call" /\ reports[i].outcome = "failed"

\* C6 as stated: for every test the runner executes one result record is
\* appended to ReportHelper.test_results, and when the suite ends the
\* records are written to a report file.
C6_Original ==
    /\ \A t \in 1..Len(plan) :
          (\E i \in 1..Len(reports) :
              reports[i].test = t /\ reports[i].when = "teardown") =>
             Len(test_results) >= t
    /\ run_pc = "done" => Len(report_files) >= 1

(***************************************************************************)
(* Claims about the element actions and the wrapper operations (Spec).     *)
(***************************************************************************)
\* C17: quit_driver never raises, calls driver.quit() once per invocation
\* with a driver and not at all when given None, and an exception of
\* driver.quit() is not propagated: the teardown of a test never fails
\* because the quit failed, so a passed test stays passed.
C17_SafeTeardown ==
    /\ \A out \in QuitOutcomes :
          /\ ~QuitDriverRaised(fn_driver, out)
          /\ ~QuitDriverRaised(cls_driver, out)
          /\ ~QuitDriverRaised(0, out)
          /\ QuitDriver(drivers, 0, out) = drivers
          /\ \A d \in 1..Len(drivers) :
                /\ QuitDriver(drivers, d, out)[d].quit_calls
                      = drivers[d].quit_calls + 1
                /\ \A e \in 1..Len(drivers) :
                      e # d => QuitDriver(drivers, d, out)[e] = drivers[e]
    /\ \A d \in 1..Len(drivers) :
          drivers[d].quit_calls = drivers[d].quit_driver_calls
    /\ \A i \in 1..Len(reports) :
          reports[i].when = "teardown" => reports[i].outcome = "passed"
    /\ run_pc = "report_teardown" => phase_outcome = "passed"

\* C17 witness: driver.quit() raised in the teardown of a test whose call
\* passed, and the teardown was reported as passed.
C17_Witness ==
    \E d \in 1..Len(drivers) :
       /\ drivers[d].quit_driver_calls = 1
       /\ drivers[d].live
       /\ \E i, j \in 1..Len(reports) :
             /\ reports[i] = [test |-> drivers[d].owner, when |-> "call",
                              outcome |-> "passed"]
             /\ reports[j] = [test |-> drivers[d].owner, when |-> "teardown",
                              outcome |-> "passed"]

\* The attempts of safe_send_keys made so far: one per loop iteration, which
\* ends with send_keys, or with a clear that raised.
Attempts(es) ==
    CountKind(es, "send_keys")
    + Cardinality({i \in 1..Len(es) : es[i][1] = "clear" /\ es[i][2] # "ok"})

NothingAfter(es, e) == \A i \in 1..Len(es) : es[i] = e => i = Len(es)

\* C1: for retry_count >= 1 safe_click makes at most retry_count native
\* clicks, stops at the first success, runs the script click at most once
\* and only right after the retry_count-th native click failed with a
\* stale-element or click-intercepted error, and returns True exactly when
\* a native click or the script click succeeded, False otherwise.
C1_SafeClickPolicy ==
    (op = EA("safe_click") /\ retry_count >= 1) =>
        /\ CountKind(events, "click") <= retry_count
        /\ NothingAfter(events, Ev("click", "ok"))
        /\ CountKind(events, "js") <= 1
        /\ \A i \in 1..Len(events) :
              events[i][1] = "js" =>
                 /\ i = Len(events)
                 /\ i > 1
                 /\ events[i - 1][1] = "click"
                 /\ events[i - 1][2] \in {"StaleElementReferenceException",
                                          "ElementClickInterceptedException"}
                 /\ CountKind(events, "click") = retry_count
        /\ pc = "returned" =>
              /\ result \in {"True", "False"}
              /\ result = "True" <=>
                    \E i \in 1..Len(events) :
                       events[i] \in {Ev("click", "ok"), Ev("js", "ok")}

\* C1 witness: three native clicks failed and the script click succeeded.
C1_Witness ==
    /\ op = EA("safe_click")
    /\ retry_count = 3
    /\ pc = "returned"
    /\ result = "True"
    /\ CountKind(events, "click") = 3
    /\ CountEv(events, "js", "ok") = 1

\* C2 as stated: safe_send_keys follows the policy of safe_click, so when
\* every attempt has failed one script-based fallback is tried before False
\* is reported.
C2_Original ==
    (op = EA("safe_send_keys") /\ retry_count >= 1) =>
        /\ Attempts(events) <= retry_count
        /\ (pc = "returned" /\ result = "False") =>
              CountKind(events, "js") = 1

\* C2 amended: for retry_count >= 1 safe_send_keys retries stale-element and
\* not-interactable failures up to retry_count times, stops at the first
\* success, and when every attempt has failed reports False directly: no
\* script-based fallback is ever tried.
C2_SendKeysPolicy ==
    (op = EA("safe_send_keys") /\ retry_count >= 1) =>
        /\ Attempts(events) <= retry_count
        /\ NothingAfter(events, Ev("send_keys", "ok"))
        /\ CountKind(events, "js") = 0
        /\ pc # "js"
        /\ pc = "returned" =>
              /\ result \in {"True", "False"}
              /\ result = "True" <=> CountEv(events, "send_keys", "ok") = 1
              /\ result = "False" =>
                    /\ Attempts(events) = retry_count
                    /\ \A i \in 1..Len(events) :
                          events[i][2] \in
                             {"ok", "StaleElementReferenceException",
                              "ElementNotInteractableException"}

\* C2 witness: every one of three attempts failed and False was returned.
C2_Witness ==
    /\ op = EA("safe_send_keys")
    /\ retry_count = 3
    /\ pc = "returned"
    /\ result = "False"
    /\ Attempts(events) = 3

\* The attempts made so far by the running safe_click or safe_send_keys.
AttemptsMade ==
    IF op = EA("safe_click") THEN CountKind(events, "click") ELSE Attempts(events)

InRetryLoop == op \in {EA("safe_click"), EA("safe_send_keys")}

\* C19: safe_click and safe_send_keys terminate for every retry_count >= 0
\* and every sequence of attempt outcomes; they make at most retry_count
\* attempts (three with the default), sleep once after each failed attempt
\* except the last (at most two sleeps with the default), and with
\* retry_count = 0 return False without any attempt, sleep or script call.
C19_Bounded ==
    InRetryLoop =>
        /\ AttemptsMade <= retry_count
        /\ CountKind(events, "sleep") <= AttemptsMade
        /\ retry_count >= 1 => CountKind(events, "sleep") <= retry_count - 1
        /\ \A i \in 1..Len(events) :
              events[i][1] = "sleep" =>
                 /\ i > 1
                 /\ events[i - 1][1] \in {"click", "clear", "send_keys"}
                 /\ events[i - 1][2] # "ok"
        /\ pc = "sleep" => AttemptsMade < retry_count
        /\ retry_count = DefaultRetryCount =>
              (AttemptsMade <= 3 /\ CountKind(events, "sleep") <= 2)
        /\ retry_count = 0 =>
              /\ events = <<>>
              /\ pc \in {"loop", "returned"}
              /\ pc = "returned" => result = "False"

C19_Terminates ==
    /\ []C19_Bounded
    /\ (InRetryLoop /\ pc \in {"loop", "sleep", "js"}) ~>
          (pc \in {"returned", "raised"})

\* C19 witness: with the default retry_count three attempts failed, with two
\* sleeps between them, and False was returned.
C19_Witness ==
    /\ op = EA("safe_send_keys")
    /\ retry_count = DefaultRetryCount
    /\ pc = "returned"
    /\ result = "False"
    /\ Attempts(events) = 3
    /\ CountKind(events, "sleep") = 2

\* C20: in safe_click and safe_send_keys an exception outside the retryable
\* set of the operation propagates to the caller at its first occurrence:
\* no attempt, sleep or script call follows it.
C20_NonRetryablePropagates ==
    InRetryLoop =>
        LET retryable == IF op = EA("safe_click")
                         THEN {"StaleElementReferenceException",
                               "ElementClickInterceptedException"}
                         ELSE {"StaleElementReferenceException",
                               "ElementNotInteractableException"}
            fatal(i) == /\ events[i][1] \in {"click", "clear", "send_keys"}
                        /\ events[i][2] \notin retryable \cup {"ok"}
        IN /\ \A i \in 1..Len(events) :
                 fatal(i) => /\ i = Len(events)
                             /\ pc = "raised"
                             /\ result = events[i][2]
           /\ pc = "raised" => (events # <<>> /\ fatal(Len(events)))

\* C20 witness: the second click of safe_click timed out, after a first
\* click that was intercepted and one sleep.
C20_Witness ==
    /\ op = EA("safe_click")
    /\ pc = "raised"
    /\ result = "TimeoutException"
    /\ events = <<Ev("click", "ElementClickInterceptedException"),
                  Ev("sleep", "ok"), Ev("click", "TimeoutException")>>

\* C3 as stated: every exception the library raises inside a wrapper
\* operation reaches the caller as an exception.
C3_Original ==
    (op \in WrapperOps /\ exc \in LibExc) => (pc = "raised" /\ result = exc)

\* C3 amended: a library exception raised inside a wrapper operation
\* reaches the caller as an exception unless, on its way up the call chain,
\* it passes an ElementActions method other than safe_click/safe_send_keys,
\* BrowserFactory.quit_driver or DashboardPage.get_cart_item_count (which
\* catch every exception), or it is a TimeoutException passing
\* BasePage.find_elements, is_element_present or is_element_visible; those
\* turn it into a return value (False, 0, [], '' or None).
C3_ErrorDisposition ==
    (op \in WrapperOps /\ exc \in LibExc) =>
        LET Converts(o) ==
               \/ o[1] = "ElementActions"
               \/ o = BF("quit_driver")
               \/ o = DP("get_cart_item_count")
               \/ /\ o \in {BP("find_elements"), BP("is_element_present"),
                            BP("is_element_visible")}
                  /\ exc = "TimeoutException"
            converted == \E i \in 1..Len(chain) : Converts(chain[i])
        IN /\ pc \in {"raised", "returned"}
           /\ pc = "returned" <=> converted
           /\ pc = "raised" => result = exc
           /\ (pc = "returned" /\ Len(chain) = 1) =>
                 result \in {"False", "0", "[]", "''", "None"}

\* C3 witness: a timeout under ProductsPage.get_product_count is turned
\* into a return value by find_elements.
C3_Witness ==
    /\ op = PP("get_product_count")
    /\ chain = <<PP("get_product_count"), BP("find_elements")>>
    /\ exc = "TimeoutException"
    /\ pc = "returned"

\* A second case of C3: the same timeout under find_element propagates.
C3_WitnessPropagates ==
    /\ op = LP("login")
    /\ Len(chain) = 4
    /\ exc = "TimeoutException"
    /\ pc = "raised"

(***************************************************************************)
(* Claims about the page objects driving the site.                         *)
(***************************************************************************)
LoginArgs == site_arg[1] \in TestUsers /\ site_arg[2] = Password
ReachedProducts ==
    site_exc = None /\ ProductsIsDisplayed(site)
    /\ UrlContains(site, "inventory.html")

C12_SubmitsExactly ==
    (site_op = "login" /\ LoginIsDisplayed(site_before))
        => /\ site_exc = None
           /\ dom_log = <<Interaction("clear", USERNAME_INPUT, <<>>),
                          Interaction("send_keys", USERNAME_INPUT, site_arg[1]),
                          Interaction("clear", PASSWORD_INPUT, <<>>),
                          Interaction("send_keys", PASSWORD_INPUT, site_arg[2]),
                          Interaction("click", LOGIN_BUTTON, <<>>)>>
           /\ IF LoginVerdict(site_arg[1], site_arg[2]) = "accepted"
              THEN ProductsIsDisplayed(site) /\ site.session = site_arg[1]
              ELSE /\ site.error = LoginVerdict(site_arg[1], site_arg[2])
                   /\ site.user_field = site_arg[1]
                   /\ site.pass_field = site_arg[2]

C12_Witness ==
    /\ site_op = "login"
    /\ site_before.error # None
    /\ site_before.user_field # <<>>
    /\ site_before.user_field # site_arg[1]
    /\ site_before.pass_field # <<>>
    /\ ProductsIsDisplayed(site)

\* The listed products a name stands for, by display name or by button id.
ProductOf(s, product_name) ==
    {i \in 1..s.listed : product_name \in {Catalog[i].name, Catalog[i].id}}

NotInCart(s, product_name) ==
    /\ s.page = "inventory"
    /\ ProductOf(s, product_name) # {}
    /\ ProductOf(s, product_name) \cap s.cart = {}

C13_AddGrows ==
    (site_op = "add_product_to_cart_by_name" /\ NotInCart(site_before, site_arg[1]))
        => /\ site_exc = None
           /\ ProductsCartCount(site).val = ProductsCartCount(site_before).val + 1
           /\ IsPresent(site, RemoveButton(site_arg[1]))

C13_RemoveRestores ==
    (/\ site_op = "add_product_to_cart_by_name"
     /\ NotInCart(site_before, site_arg[1])
     /\ site_op' = "remove_product_from_cart_by_name"
     /\ site_arg' = site_arg)
        => /\ site_exc' = None
           /\ ProductsCartCount(site').val = ProductsCartCount(site_before).val
           /\ ~IsPresent(site', RemoveButton(site_arg[1]))

\* C13: adding a product that is not in the cart raises the cart count by one
\* and puts the product in the cart; removing it next brings the count back
\* to what it was before the add and takes the product out.
C13_AddRemoveRoundTrip == []C13_AddGrows /\ [][C13_RemoveRestores]_vars

C13_Witness ==
    /\ site_op = "remove_product_from_cart_by_name"
    /\ site_exc = None
    /\ ProductOf(site_before, site_arg[1]) # {}
    /\ ProductOf(site_before, site_arg[1]) \subseteq site_before.cart
    /\ ProductsCartCount(site_before).val = 2
    /\ ProductsCartCount(site).val = 1

\* C14: on an empty cart with N products listed,
\* add_first_n_products_to_cart(n) leaves the cart count at n for
\* 0 <= n <= N (every listed product for n = N), clicks exactly N buttons for
\* n > N and none for n <= 0.
C14_AddFirstN ==
    (/\ site_op = "add_first_n_products_to_cart"
     /\ site_before.page = "inventory"
     /\ site_before.cart = {})
        => LET N == site_before.listed
               n == site_arg[1]
           IN /\ site_exc = None
              /\ (0 <= n /\ n <= N) => ProductsCartCount(site).val = n
              /\ n = N => site.cart = 1..N
              /\ n > N => Len(dom_log) = N
              /\ n <= 0 => Len(dom_log) = 0
              /\ \A i \in 1..Len(dom_log) : dom_log[i].act = "click"

C14_Witness ==
    /\ site_op = "add_first_n_products_to_cart"
    /\ site_before.page = "inventory"
    /\ site_before.cart = {}
    /\ site_before.listed = 2
    /\ site_arg[1] > 2
    /\ Len(dom_log) = 2
    /\ ProductsCartCount(site).val = 2


(***************************************************************************)
(* Claims about the order of screenshot and quit in a test run.            *)
(***************************************************************************)
\* A step that takes a screenshot takes it in the report of the call phase,
\* of the running test, on a driver that is live and was never handed to
\* quit_driver; a step that quits a driver quits one never quit before.
C21_Step ==
    /\ Len(screenshots') > Len(screenshots)
          => LET shot == screenshots'[Len(screenshots')]
             IN /\ run_pc = "report_call"
                /\ shot.test = cur
                /\ shot.driver # 0
                /\ drivers[shot.driver].live
                /\ drivers[shot.driver].quit_driver_calls = 0
    /\ \A d \in 1..Len(drivers) :
          drivers'[d].quit_driver_calls > drivers[d].quit_driver_calls
             => run_pc = "teardown" /\ drivers[d].quit_driver_calls = 0

\* C21: the screenshot of a failed test is taken after the test body and
\* before quit_driver is called on the test's driver, and no operation is
\* issued on a driver after it was quit, for the function-scoped and the
\* class-scoped driver.
C21_CaptureBeforeQuit == [][C21_Step]_vars

C21_Witness ==
    \E i \in 1..Len(screenshots) :
        /\ drivers[screenshots[i].driver].scope = "class"
        /\ drivers[screenshots[i].driver].quit_driver_calls = 1
        /\ \E j \in 1..Len(screenshots) :
              drivers[screenshots[j].driver].scope = "function"


\* C22: when capture_screenshot fails inside the makereport hook the
\* exception stays in the hook: the run goes on, and the test is recorded as
\* failed in its call phase as it would have been.
C22_CaptureFailureContained ==
    /\ run_pc # "internal_error"
    /\ \A j \in 1..Len(screenshots) :
          ~screenshots[j].saved =>
             \E i \in 1..Len(reports) :
                /\ reports[i].test = screenshots[j].test
                /\ reports[i].when = "call"
                /\ reports[i].outcome = "failed"

C22_Witness ==
    /\ run_pc = "done"
    /\ \E j \in 1..Len(screenshots) :
          /\ ~screenshots[j].saved
          /\ \E i \in 1..Len(reports) :
                /\ reports[i].test = screenshots[j].test
                /\ reports[i].when = "teardown"
                /\ reports[i].outcome = "passed"


(***************************************************************************)
(* Claims about the summary of the report helper.                          *)
(***************************************************************************)
\* C27 as stated: after any calls of add_test_result and clear_results the
\* summary has total = passed + failed + skipped, and total is the number
\* of records held.
C27_Original ==
    LET summary == GenerateSummary(test_results)
    IN /\ summary.total = summary.passed + summary.failed + summary.skipped
       /\ summary.total = Len(test_results)


(***************************************************************************)
(* Claims comparing the two get_cart_item_count methods.                   *)
(***************************************************************************)
\* The badge is absent, or it is there and its text is a number.
BadgeReadable ==
    \/ badge_found = "TimeoutException"
    \/ /\ badge_found = "found"
       /\ badge_text.exc = None
       /\ Strip(badge_text.text) # <<>>
       /\ \A i \in 1..Len(Strip(badge_text.text)) :
             Strip(badge_text.text)[i] \in Digits

\* C28 as stated: on every page state the two methods return the same
\* integer and neither raises.
C28_Original ==
    badge_page # "none" =>
        /\ badge_exc = None
        /\ badge_ret = DashGetCartItemCount(badge_found, badge_text).val
        /\ badge_ret = ProductsPageCount(badge_found, badge_text).val

\* C28: the two methods return the same integer, without raising, when the
\* badge is absent or shows a number; when its text is empty or not a
\* number, when it disappears between the presence check and the read, or
\* when the presence check fails, DashboardPage returns 0 and ProductsPage
\* raises.
C28_SameOnReadableBadge ==
    badge_page # "none" =>
        /\ BadgeReadable =>
              /\ badge_exc = None
              /\ badge_ret = DashGetCartItemCount(badge_found, badge_text).val
              /\ badge_ret = ProductsPageCount(badge_found, badge_text).val
              /\ ProductsPageCount(badge_found, badge_text).exc = None
        /\ (~BadgeReadable /\ badge_page = "DashboardPage") =>
              badge_exc = None /\ badge_ret = 0
        /\ (~BadgeReadable /\ badge_page = "ProductsPage") =>
              badge_exc = IF badge_found # "found" THEN badge_found
                          ELSE IF badge_text.exc # None THEN badge_text.exc
                          ELSE "ValueError"

C28_Witness ==
    /\ badge_page = "ProductsPage"
    /\ badge_found = "found"
    /\ badge_text = [exc |-> None, text |-> <<>>]
    /\ badge_exc = "ValueError"


(***************************************************************************)
(* Claims about the waits of BasePage.                                     *)
(***************************************************************************)
\* C23 as stated: a timeout passed to a BasePage operation is the timeout of
\* its wait, for every value including 0; only without one is the default
\* used.
C23_Original ==
    wait_op \in WaitMethods =>
        wait_used = IF wait_timeout # NoTimeout THEN wait_timeout[1]
                    ELSE IF wait_op = "is_element_present" THEN PresentTimeout
                    ELSE wait_config

\* For every timeout but 0 the claim holds.
C23_NonZeroTimeouts ==
    (wait_op \in WaitMethods /\ wait_timeout # <<0>>) =>
        wait_used = IF wait_timeout # NoTimeout THEN wait_timeout[1]
                    ELSE IF wait_op = "is_element_present" THEN PresentTimeout
                    ELSE wait_config

WaitTimedOut == wait_appears = Never \/ wait_appears[1] > wait_used

\* C24: when the wait times out find_element raises TimeoutException,
\* find_elements returns the empty list, is_element_present and
\* is_element_visible return False, get_product_count returns 0 and
\* add_first_n_products_to_cart clicks nothing; the last five never raise
\* TimeoutException.
C24_TimeoutDisposition ==
    /\ wait_op \in {"find_elements", "is_element_present", "is_element_visible",
                    "get_product_count", "add_first_n_products_to_cart"}
          => wait_exc = None
    /\ (wait_op # "none" /\ WaitTimedOut) =>
          CASE wait_op = "find_element" -> wait_exc = "TimeoutException"
            [] wait_op = "find_elements" -> wait_ret = "[]"
            [] wait_op \in {"is_element_present", "is_element_visible"} ->
                 wait_ret = "False"
            [] wait_op \in {"get_product_count", "add_first_n_products_to_cart"} ->
                 wait_ret = 0
            [] OTHER -> wait_exc = "TimeoutException"

C24_Witness ==
    /\ wait_op = "get_product_count"
    /\ wait_appears = Never
    /\ wait_exc = None
    /\ wait_ret = 0


(***************************************************************************)
(* Claims about BrowserFactory.get_driver.                                 *)
(***************************************************************************)
\* C25: get_driver creates a driver only when the browser name, or
\* config.browser for an empty or missing name, is exactly chrome, firefox,
\* edge or safari; for any other name it raises ValueError and creates
\* none; a headless value that was passed, False included, is the one used,
\* and config.headless only when none was passed.
C25_GetDriverSelection ==
    bf_result.browser # "none" =>
        LET name == IF bf_call.browser = None \/ bf_call.browser = ""
                    THEN bf_call.config_browser ELSE bf_call.browser
        IN /\ bf_result.browser = name
           /\ bf_result.created => name \in {"chrome", "firefox", "edge", "safari"}
           /\ name \notin {"chrome", "firefox", "edge", "safari"} =>
                 bf_result.exc = "ValueError" /\ ~bf_result.created
           /\ name \in {"chrome", "firefox", "edge", "safari"} =>
                 bf_result.exc # "ValueError"
           /\ bf_result.headless = IF bf_call.headless \in {"True", "False"}
                                   THEN bf_call.headless
                                   ELSE bf_call.config_headless
           /\ name \in {"chrome", "firefox", "edge"} =>
                 bf_result.options_headless = bf_result.headless

C25_Witness ==
    /\ bf_call.browser = ""
    /\ bf_call.config_browser = "firefox"
    /\ bf_call.headless = "False"
    /\ bf_call.config_headless = "True"
    /\ bf_result.created
    /\ bf_result.exc = None
    /\ bf_result.options_headless = "False"


(***************************************************************************)
(* Claims about the predicates of CustomWaitConditions.                    *)
(***************************************************************************)
\* C26: evaluated on an absent element every locator-based predicate gives a
\* falsy value and raises nothing, the wait goes on polling, and a wait that
\* ended satisfied last saw the element there and meeting the condition; an
\* absent element does not satisfy element_to_be_not_selected.
C26_AbsentIsFalsy ==
    cw.polls > 0 =>
        /\ cw.seen.state = "absent" =>
              /\ cw.exc = None
              /\ cw.val = "False"
              /\ cw.status \in {"polling", "timeout"}
        /\ cw.status = "satisfied" =>
              /\ cw.seen.state = "present"
              /\ CASE cw.kind = "element_text_to_be" -> cw.seen.text = <<"o", "k">>
                   [] cw.kind = "element_text_contains" ->
                        cw.seen.text \in {<<"o", "k">>, <<"o", "k", "!">>}
                   [] cw.kind = "element_attribute_to_be" ->
                        cw.seen.attribute = <<"o", "k">>
                   [] cw.kind = "element_attribute_contains" ->
                        cw.seen.attribute \in {<<"o", "k">>, <<"o", "k", "!">>}
                   [] cw.kind = "element_to_be_selected" -> cw.seen.selected
                   [] cw.kind = "element_to_be_not_selected" -> ~cw.seen.selected
                   [] OTHER -> cw.seen.css = <<"o", "k">>

C26_Witness ==
    /\ cw.kind = "element_to_be_not_selected"
    /\ cw.seen.state = "absent"
    /\ cw.polls = 2
    /\ cw.status = "polling"
    /\ cw.val = "False"


(***************************************************************************)
(* Claims about capture_full_page_screenshot.                              *)
(***************************************************************************)
FullPageCalled == fp_call.trace # <<>>

\* The driver resized the window to the page, and every set_window_size
\* back to the original size that the code can reach raises.
RestoreFailed ==
    LET o == fp_call.outs
    IN /\ o.get = "ok" /\ o.script = "ok"
       /\ o.resize \in {"ok", "raised_resized"}
       /\ ~(o.resize = "ok" /\ o.save = "ok" /\ o.restore = "ok")
       /\ o.handler # "ok"

\* C29 as stated: whether capture_full_page_screenshot returns or raises,
\* at whatever step, the window size after the call is the size before it.
C29_Original == FullPageCalled => fp_window = fp_call.before

\* C29: the window size after the call is the size before it whenever the
\* call returns, and whenever it raises and a set_window_size back to the
\* original size worked or the window was never resized; when every
\* restoring set_window_size fails, the window keeps the size of the page
\* and the call raises.
C29_RestoredUnlessRestoreFails ==
    FullPageCalled =>
        /\ fp_call.exc = None => fp_window = fp_call.before
        /\ ~RestoreFailed => fp_window = fp_call.before
        /\ RestoreFailed => fp_window = <<1024, 3000>> /\ fp_call.exc # None

C29_Witness ==
    /\ FullPageCalled
    /\ fp_call.exc # None
    /\ Len(fp_call.trace) = 5
    /\ fp_call.trace[4] = <<"save_screenshot", <<1024, 3000>>, "raised">>
    /\ fp_call.trace[5] = <<"set_window_size", fp_call.before, "ok">>
    /\ fp_window = fp_call.before


(***************************************************************************)
(* Claims about checkbox_select and checkbox_deselect.                     *)
(***************************************************************************)
\* The last two calls, when the same method was called twice in a row.
First == cb_calls[Len(cb_calls) - 1]
Second == cb_calls[Len(cb_calls)]
CalledTwice == Len(cb_calls) >= 2 /\ First.op = Second.op

Requested(call) == call.op = "checkbox_select"

\* C30 as stated: calling checkbox_select, or checkbox_deselect, twice in a
\* row performs at most one click and leaves the checkbox as one call did.
C30_Original ==
    CalledTwice =>
        /\ First.clicks + Second.clicks <= 1
        /\ Second.after = First.after

\* C30: checkbox_select clicks only when the element is not selected and
\* checkbox_deselect only when it is selected; when the first of two calls
\* in a row leaves the checkbox in the requested state, the second call
\* performs no click and leaves the state as it was, so the two perform at
\* most one click.
C30_IdempotentOnceInState ==
    /\ \A i \in 1..Len(cb_calls) :
          cb_calls[i].clicks = 1 => cb_calls[i].before # Requested(cb_calls[i])
    /\ (CalledTwice /\ First.after = Requested(First)) =>
          /\ Second.clicks = 0
          /\ First.clicks + Second.clicks <= 1
          /\ Second.after = First.after

C30_Witness ==
    /\ CalledTwice
    /\ First.op = "checkbox_select"
    /\ First.before = FALSE
    /\ First.clicks = 1
    /\ First.after = TRUE
    /\ Second.clicks = 0
    /\ Second.ret = TRUE
    /\ cb_selected = TRUE

====
